---------------------------- MODULE Spec2Model ----------------------------
(***************************************************************************)
(* Multicomponent Miedema calculator: the binary subsystem (BinarySys.py), *)
(* the six contribution-coefficient models and the multicomponent          *)
(* aggregator (core/UnifiedExtrapolationModel.py), and the two activity    *)
(* derivations (core/ and top-level UnifiedExtrapolationModel.py).         *)
(*                                                                         *)
(* Numbers.  Python floats are modelled by exact rationals <<n, d>> in     *)
(* lowest terms with d > 0; floating-point rounding is outside the model.  *)
(* A Python call either returns a value or raises: a call's outcome is a   *)
(* record [err |-> "none", v |-> value] or [err |-> <exception>, v |-> 0]. *)
(* math.log, math.exp and scipy's quad are replaced by rational            *)
(* approximants that keep their domain, sign and fixed points (Ln, ExpNeg, *)
(* quad below).  The element store (an SQLite file that is no part of the  *)
(* sources) is a small table of rational parameters, ElementTable.         *)
(***************************************************************************)
EXTENDS Integers, Sequences, FiniteSets, TLC

(***************************************************************************)
(* Rational arithmetic                                                     *)
(***************************************************************************)
\* A Python statement evaluates its right-hand side once and names the value.
\* The({ body : x \in { e } }) is body with x naming the value of e.
The(S) == CHOOSE r \in S : TRUE

Abs(n) == IF n < 0 THEN -n ELSE n

RECURSIVE GCD(_, _)
GCD(a, b) == IF b = 0 THEN a ELSE GCD(b, a % b)

\* n/d in lowest terms, d > 0 (d # 0 required)
Q(n, d) ==
  The({ IF d < 0 THEN << (-n) \div g, (-d) \div g >> ELSE << n \div g, d \div g >>
        : g \in { GCD(Abs(n), Abs(d)) } })

Zero == << 0, 1 >>
One == << 1, 1 >>
Half == << 1, 2 >>

\* over the least common denominator
RAdd(a, b) ==
  The({ Q(a[1] * (b[2] \div g) + b[1] * (a[2] \div g), (a[2] \div g) * b[2])
        : g \in { GCD(a[2], b[2]) } })

RNeg(a) == << -a[1], a[2] >>
RSub(a, b) == RAdd(a, RNeg(b))

\* cancelling across before multiplying
RMul(a, b) ==
  The({ Q((a[1] \div g1) * (b[1] \div g2), (a[2] \div g2) * (b[2] \div g1))
        : g1 \in { GCD(Abs(a[1]), b[2]) }, g2 \in { GCD(Abs(b[1]), a[2]) } })

\* b # 0 required: the callers test the divisor first, as Python raises
RInv(b) == IF b[1] < 0 THEN << -b[2], -b[1] >> ELSE << b[2], b[1] >>
RDiv(a, b) == RMul(a, RInv(b))

RAbs(a) == << Abs(a[1]), a[2] >>
RSq(a) == RMul(a, a)
RLt(a, b) == a[1] * b[2] < b[1] * a[2]
RLe(a, b) == a[1] * b[2] <= b[1] * a[2]
RPos(a) == a[1] > 0
RNonNeg(a) == a[1] >= 0
RIsZero(a) == a[1] = 0
RMin(a, b) == IF RLe(a, b) THEN a ELSE b
RMax(a, b) == IF RLe(a, b) THEN b ELSE a

\* sum of f[x] over the elements of the sequence s, left to right
RECURSIVE RSumSeq(_, _)
RSumSeq(f, s) ==
  IF s = << >> THEN Zero ELSE RAdd(RSumSeq(f, SubSeq(s, 1, Len(s) - 1)), f[s[Len(s)]])

(***************************************************************************)
(* Outcomes of a call: a value or an exception                             *)
(***************************************************************************)
Ok(v) == [err |-> "none", v |-> v]
Raise(e) == [err |-> e, v |-> Zero]
IsOk(r) == r.err = "none"

(***************************************************************************)
(* Element: the parameters Element._querydata reads from the store         *)
(***************************************************************************)
Elem(phi, nws, V, u, ab, hyb, tr, dH, Tm) ==
  [phi |-> phi, nws |-> nws, V |-> V, u |-> u, alpha_beta |-> ab,
   hybirdvalue |-> hyb, isTrans |-> tr, dHtrans |-> dH, Tm |-> Tm]

\* The store's rows for the elements the model uses, in small rational units.
\* u = 0 makes the volume iteration converge in its first pass; equal V and
\* Tm, and nws = 5/71 (which cancels the factor 2 * 14.2 of the interaction
\* term), keep the exact rationals of every derived quantity small.
ElementTable ==
  [s \in {"Fe", "Ni", "Cr", "Si"} |->
     CASE s = "Fe" -> Elem(<< 5, 1 >>, << 5, 71 >>, One, Zero, "other", Zero, TRUE, Zero, << 2000, 1 >>)
       [] s = "Ni" -> Elem(<< 6, 1 >>, << 5, 71 >>, One, Zero, "other", Zero, TRUE, Zero, << 2000, 1 >>)
       [] s = "Cr" -> Elem(<< 7, 1 >>, << 5, 71 >>, One, Zero, "other", Zero, TRUE, Zero, << 2000, 1 >>)
       [] s = "Si" -> Elem(<< 4, 1 >>, << 5, 71 >>, One, Zero, "beta", << 2, 1 >>, FALSE, << 34, 1 >>, << 2000, 1 >>)]

Symbols == DOMAIN ElementTable
Element(s) == ElementTable[s]

(***************************************************************************)
(* Binary: BinarySys.py                                                    *)
(***************************************************************************)
PhaseStates == {"S", "L"}
OrderDegrees == {"SS", "AMP", "IM"}

\* Binary.__init__: an Ok(binary object) or the exception it raises
Binary(A, B, phase_state, order_degree) ==
  IF A \notin Symbols \/ B \notin Symbols THEN Raise("Exception")
  ELSE IF phase_state \notin PhaseStates THEN Raise("ValueError")
  ELSE IF order_degree \notin OrderDegrees THEN Raise("ValueError")
  ELSE Ok([A |-> A, B |-> B,
           alpha |-> IF phase_state = "S" THEN One ELSE << 73, 100 >>,
           lammda |-> CASE order_degree = "SS" -> Zero
                        [] order_degree = "AMP" -> << 5, 1 >>
                        [] order_degree = "IM" -> << 8, 1 >>,
           xA |-> Zero, xB |-> Zero, hasTem |-> FALSE, Tem |-> Zero])

\* Binary.set_X: the object with the normalized pair, or ZeroDivisionError
set_X(b, xA, xB) ==
  The({ IF RIsZero(total) THEN Raise("ZeroDivisionError")
        ELSE Ok([b EXCEPT !.xA = RDiv(xA, total), !.xB = RDiv(xB, total)])
        : total \in { RAdd(xA, xB) } })

set_T(b, Tem) == [b EXCEPT !.hasTem = TRUE, !.Tem = Tem]

max_iterations == 1000
epsilonInv == 1000000
epsilon == << 1, epsilonInv >>

\* the update of the loop body of _V_in_alloy from the volume fractions
V_updated(b, A, B, Pax, Pbx) ==
  The({ << RMul(A.V, RAdd(One, RMul(RMul(RMul(A.u, Pbx), f), RSub(A.phi, B.phi)))),
           RMul(B.V, RAdd(One, RMul(RMul(RMul(B.u, Pax), f), RSub(B.phi, A.phi)))) >>
        : f \in { RAdd(One, RMul(b.lammda, RSq(RMul(Pax, Pbx)))) } })

\* the denominator of the volume fractions Pax and Pbx
VolDenominator(xA, xB, V1, V2) == RAdd(RMul(xB, V2), RMul(xA, V1))

\* one pass of the loop body of _V_in_alloy: the updated pair, or the
\* ZeroDivisionError of the volume-fraction quotient
V_update(b, xA, xB, V1_tem, V2_tem) ==
  The({ IF RIsZero(den) THEN Raise("ZeroDivisionError")
        ELSE Ok(V_updated(b, Element(b.A), Element(b.B),
                          RDiv(RMul(xA, V1_tem), den), RDiv(RMul(xB, V2_tem), den)))
        : den \in { VolDenominator(xA, xB, V1_tem, V2_tem) } })

\* |a - b| < epsilon: |n|/d < 1/epsilonInv iff |n| < ceiling(d/epsilonInv)
CloserThanEpsilon(a, b) ==
  \E d \in { RSub(a, b) } : Abs(d[1]) < (d[2] + epsilonInv - 1) \div epsilonInv

\* the convergence test of _V_in_alloy
Converged(Vnew, Vold) ==
  /\ CloserThanEpsilon(Vnew[1], Vold[1])
  /\ CloserThanEpsilon(Vnew[2], Vold[2])

\* Binary._V_in_alloy as a function of its arguments, the clock staying
\* below max_time (VolSpec below steps the same loop with a free clock)
RECURSIVE V_loop(_, _, _, _, _)
V_loop(b, xA, xB, V, iterations) ==
  IF iterations >= max_iterations THEN Ok(V)
  ELSE The({ IF ~IsOk(r) THEN r
             ELSE IF Converged(r.v, V) THEN r
             ELSE V_loop(b, xA, xB, r.v, iterations + 1)
             : r \in { V_update(b, xA, xB, V[1], V[2]) } })

V_in_alloy(b, xA, xB) == V_loop(b, xA, xB, << Element(b.A).V, Element(b.B).V >>, 0)

\* the hybridization term r_to_p
r_to_p(b, A, B) ==
  IF A.alpha_beta # "other" /\ B.alpha_beta # "other" /\ A.alpha_beta # B.alpha_beta
  THEN RMul(b.alpha, RMul(A.hybirdvalue, B.hybirdvalue))
  ELSE Zero

p_AB(A, B) ==
  IF A.isTrans /\ B.isTrans THEN << 71, 5 >>          \* 14.2
  ELSE IF A.isTrans \/ B.isTrans THEN << 247, 20 >>   \* 12.35
  ELSE << 107, 10 >>   \* 10.7

\* the chemical potential difference df (9.4 = 47/5)
df_AB(b, A, B) ==
  RDiv(RMul(RMul(<< 2, 1 >>, p_AB(A, B)),
            RSub(RAdd(RNeg(RSq(RSub(A.phi, B.phi))),
                      RMul(<< 47, 5 >>, RSq(RSub(A.nws, B.nws)))),
                 r_to_p(b, A, B))),
       RAdd(RInv(A.nws), RInv(B.nws)))

\* Binary.getEnthalpy_byMiedema_Model
getEnthalpy_byMiedema_Model(b, xA, xB) ==
  The({ IF RIsZero(total) THEN Raise("ZeroDivisionError")
        ELSE The({ IF ~IsOk(Vr) THEN Vr
                   ELSE The({ IF RIsZero(vsum) THEN Raise("ZeroDivisionError")
                              ELSE The({ Ok(RAdd(RMul(RMul(RMul(cc, RAdd(One, RMul(b.lammda, RSq(cc)))),
                                                           vsum),
                                                      df_AB(b, A, B)),
                                                 RAdd(RMul(x1, A.dHtrans), RMul(x2, B.dHtrans))))
                                         : cc \in { RMul(RDiv(RMul(x1, Vr.v[1]), vsum),
                                                         RDiv(RMul(x2, Vr.v[2]), vsum)) } })
                              : vsum \in { RAdd(RMul(x1, Vr.v[1]), RMul(x2, Vr.v[2])) } })
                   : x1 \in { RDiv(xA, total) }, x2 \in { RDiv(xB, total) },
                     Vr \in { V_in_alloy(b, xA, xB) } })
        : A \in { Element(b.A) }, B \in { Element(b.B) }, total \in { RAdd(xA, xB) } })

\* Binary._get_excess_entropy (1/15.1 = 10/151)
get_excess_entropy(b, xA, xB) ==
  The({ IF ~IsOk(Hmix) THEN Hmix
        ELSE Ok(RMul(RMul(IF b.alpha = << 73, 100 >> THEN << 1, 14 >> ELSE << 10, 151 >>,
                          RAdd(RInv(Element(b.A).Tm), RInv(Element(b.B).Tm))),
                     Hmix.v))
        : Hmix \in { getEnthalpy_byMiedema_Model(b, xA, xB) } })

\* Binary.get_excess_Gibbs: reads self.Tem, which only set_T creates
get_excess_Gibbs(b, xA, xB) ==
  The({ IF ~IsOk(enthalpy) THEN enthalpy
        ELSE The({ IF ~IsOk(entropy) THEN entropy
                   ELSE IF ~b.hasTem THEN Raise("AttributeError")
                   ELSE Ok(RSub(enthalpy.v, RMul(b.Tem, entropy.v)))
                   : entropy \in { get_excess_entropy(b, xA, xB) } })
        : enthalpy \in { getEnthalpy_byMiedema_Model(b, xA, xB) } })

\* 8.314
GasR == << 4157, 500 >>

\* the shared body of d_fun10 and d_fun20: A and B are the function's local
\* element variables; the special-element test reads self.A in both
\* (1/15.2 = 5/76)
lnY0_dilute(b, A, B) ==
  IF ~b.hasTem THEN Raise("AttributeError")
  ELSE IF RIsZero(b.Tem) THEN Raise("ZeroDivisionError")
  ELSE
    The({ Ok(RMul(RAdd(RDiv(RMul(RMul(RMul(<< 1000, 1 >>, df_AB(b, A, B)), B.V),
                                 RAdd(One, RMul(B.u, RSub(B.phi, A.phi)))), RT),
                       RDiv(RMul(<< 1000, 1 >>, dH_trans), RT)),
                  RSub(One, ecf)))
          : dH_trans \in { IF b.alpha = << 73, 100 >>
                           THEN (IF b.A \in {"Si", "Ge", "C", "P"} THEN B.dHtrans ELSE Zero)
                           ELSE B.dHtrans },
            ecf \in { RMul(IF b.alpha = << 73, 100 >> THEN << 1, 14 >> ELSE << 5, 76 >>,
                           RAdd(RInv(A.Tm), RInv(B.Tm))) },
            RT \in { RMul(GasR, b.Tem) } })

\* Binary.d_fun10
d_fun10(b) == lnY0_dilute(b, Element(b.A), Element(b.B))

\* Binary.d_fun20
d_fun20(b) == lnY0_dilute(b, Element(b.B), Element(b.A))

(***************************************************************************)
(* Library functions                                                       *)
(***************************************************************************)
\* math.exp: 1 + x for x >= 0 and 1/(1 - x) for x < 0, which is positive,
\* increasing, 1 at 0 and within (0, 1] on the non-positive reals
Exp(x) == IF RNonNeg(x) THEN RAdd(One, x) ELSE RInv(RSub(One, x))
\* the exponential factor with the sign of its argument dropped
ExpNegDropped(d) == Exp(d)

\* exp(-d) of UEM1 and UEM2_N
ExpNeg(d) == Exp(RNeg(d))

\* math.log: ValueError outside the positive reals; inside, the first-order
\* expansion at 1, which keeps log(1) = 0 and the sign on either side of 1
Ln(x) ==
  IF ~RPos(x) THEN Raise("ValueError")
  ELSE Ok(RSub(x, One))

\* scipy.integrate.quad(f, 0, 1)[0] is the midpoint rule: the integrand at
\* QuadNode; an exception of the integrand propagates
QuadNode == Half

(***************************************************************************)
(* Contribution-coefficient models: core/UnifiedExtrapolationModel.py      *)
(***************************************************************************)
\* a function that ends without a return statement returns None
ReturnsNone == [err |-> "None", v |-> Zero]

\* Binary(A, B, ...) followed by set_T(T): the object, or the constructor's exception
BinaryAtT(A, B, T, phase_state, order_degree) ==
  The({ IF IsOk(r) THEN Ok(set_T(r.v, T)) ELSE r
        : r \in { Binary(A, B, phase_state, order_degree) } })

\* abs(x) < 1e-10, the threshold written as 1/(TinyInvHi * TinyInvLo)
TinyInvHi == 100000
TinyInvLo == 100000
CeilDiv(n, d) == (n + d - 1) \div d
AbsLtTiny(x) == Abs(x[1]) < CeilDiv(CeilDiv(x[2], TinyInvHi), TinyInvLo)

\* a variant whose mixed-sign branch makes its two product tests in the
\* other order
asym_rule_swapped(k, i, j, a, b, c) ==
  IF (RPos(a) /\ RPos(b) /\ RPos(c)) \/ (RPos(RNeg(a)) /\ RPos(RNeg(b)) /\ RPos(RNeg(c)))
  THEN The({ IF t2 = RAbs(a) THEN k ELSE IF t2 = RAbs(b) THEN j ELSE i
             : t2 \in { RMin(RMin(RAbs(a), RAbs(b)), RAbs(c)) } })
  ELSE The({ IF t = a THEN k ELSE IF t = b THEN j ELSE i
             : t \in { IF RPos(RMul(a, c)) THEN c ELSE IF RPos(RMul(a, b)) THEN b ELSE a } })

\* a variant whose same-sign branch tests the largest magnitude
asym_rule_largest(k, i, j, a, b, c) ==
  IF (RPos(a) /\ RPos(b) /\ RPos(c)) \/ (RPos(RNeg(a)) /\ RPos(RNeg(b)) /\ RPos(RNeg(c)))
  THEN The({ IF t2 = RAbs(a) THEN k ELSE IF t2 = RAbs(b) THEN j ELSE i
             : t2 \in { RMax(RMax(RAbs(a), RAbs(b)), RAbs(c)) } })
  ELSE The({ IF t = a THEN k ELSE IF t = b THEN j ELSE i
             : t \in { IF RPos(RMul(a, b)) THEN c ELSE IF RPos(RMul(a, c)) THEN b ELSE a } })

\* the selection rule of _asym_component_choice on the three equimolar
\* enthalpies a = H_ij, b = H_ik, c = H_jk
asym_rule(k, i, j, a, b, c) ==
  IF (RPos(a) /\ RPos(b) /\ RPos(c)) \/ (RPos(RNeg(a)) /\ RPos(RNeg(b)) /\ RPos(RNeg(c)))
  THEN The({ IF t2 = RAbs(a) THEN k ELSE IF t2 = RAbs(b) THEN j ELSE i
             : t2 \in { RMin(RMin(RAbs(a), RAbs(b)), RAbs(c)) } })
  ELSE The({ IF t = a THEN k ELSE IF t = b THEN j ELSE i
             : t \in { IF RPos(RMul(a, b)) THEN c ELSE IF RPos(RMul(a, c)) THEN b ELSE a } })

\* _asym_component_choice
asym_component_choice(k, i, j, phase_state, order_degree) ==
  The({ IF ~IsOk(bij) THEN bij ELSE IF ~IsOk(bik) THEN bik ELSE IF ~IsOk(bjk) THEN bjk
        ELSE The({ IF ~IsOk(a) THEN a ELSE IF ~IsOk(b) THEN b ELSE IF ~IsOk(c) THEN c
                   ELSE [err |-> "none", v |-> asym_rule(k, i, j, a.v, b.v, c.v)]
                   : a \in { getEnthalpy_byMiedema_Model(bij.v, Half, Half) },
                     b \in { getEnthalpy_byMiedema_Model(bik.v, Half, Half) },
                     c \in { getEnthalpy_byMiedema_Model(bjk.v, Half, Half) } })
        : bij \in { Binary(i, j, phase_state, order_degree) },
          bik \in { Binary(i, k, phase_state, order_degree) },
          bjk \in { Binary(j, k, phase_state, order_degree) } })

\* the integrand func_yeta2 of _beta_kj
func_yeta2(bik, bij, x) ==
  The({ IF ~IsOk(g1) THEN g1
        ELSE The({ IF ~IsOk(g2) THEN g2 ELSE Ok(RSq(RSub(g1.v, g2.v)))
                   : g2 \in { get_excess_Gibbs(bij, x, RSub(One, x)) } })
        : g1 \in { get_excess_Gibbs(bik, x, RSub(One, x)) } })

\* _beta_kj: the integral of func_yeta2 over [0, 1]
beta_kj(k, j, i, T, phase_state, order_degree) ==
  The({ IF ~IsOk(bik) THEN bik ELSE IF ~IsOk(bij) THEN bij
        ELSE func_yeta2(bik.v, bij.v, QuadNode)
        : bik \in { BinaryAtT(i, k, T, phase_state, order_degree) },
          bij \in { BinaryAtT(i, j, T, phase_state, order_degree) } })

\* _df_UEM1
df_UEM1(k, i, T, phase_state, order_degree) ==
  The({ IF ~IsOk(bik) THEN bik
        ELSE The({ IF ~IsOk(lnYi0) THEN lnYi0
                   ELSE The({ IF ~IsOk(lnYk0) THEN lnYk0
                              ELSE Ok(RAbs(RSub(lnYk0.v, lnYi0.v)))
                              : lnYk0 \in { d_fun20(bik.v) } })
                   : lnYi0 \in { d_fun10(bik.v) } })
        : bik \in { BinaryAtT(i, k, T, phase_state, order_degree) } })

\* UEM2_N from its four integrals: the two relative differences and the result
UEM2_N_quot(Wkj, Wji, Wki, Wij) ==
  IF RIsZero(RAdd(Wki, Wji)) \/ RIsZero(RAdd(Wkj, Wij)) THEN Raise("ZeroDivisionError")
  ELSE The({ IF RIsZero(RAdd(df_kj, df_ki)) THEN Raise("ZeroDivisionError")
             ELSE Ok(RMul(RDiv(df_kj, RAdd(df_kj, df_ki)), ExpNeg(df_ki)))
             : df_kj \in { RAbs(RDiv(RSub(Wki, Wji), RAdd(Wki, Wji))) },
               df_ki \in { RAbs(RDiv(RSub(Wkj, Wij), RAdd(Wkj, Wij))) } })

\* the integrands wkj, wji and wki of UEM2_N
w_integrand(bxy, x) == get_excess_Gibbs(bxy, x, RSub(One, x))

\* lines 152-155: the (A, B) of the Binary whose curve each quad call
\* integrates, for Wkj, Wji, Wki and Wij in this order
UEM2_N_integrated(k, i, j) ==
  << << k, j >>, << j, i >>, << k, i >>, << j, i >> >>

\* UEM2_N: line 155 integrates wji for Wij
UEM2_N(k, i, j, T, phase_state, order_degree) ==
  The({ IF ~IsOk(bij) THEN bij ELSE IF ~IsOk(bkj) THEN bkj
        ELSE IF ~IsOk(bji) THEN bji ELSE IF ~IsOk(bki) THEN bki
        ELSE The({ IF ~IsOk(Wkj) THEN Wkj
                   ELSE The({ IF ~IsOk(Wji) THEN Wji
                              ELSE The({ IF ~IsOk(Wki) THEN Wki
                                         ELSE UEM2_N_quot(Wkj.v, Wji.v, Wki.v, Wji.v)
                                         : Wki \in { w_integrand(bki.v, QuadNode) } })
                              : Wji \in { w_integrand(bji.v, QuadNode) } })
                   : Wkj \in { w_integrand(bkj.v, QuadNode) } })
        : bij \in { BinaryAtT(i, j, T, phase_state, order_degree) },
          bkj \in { BinaryAtT(k, j, T, phase_state, order_degree) },
          bji \in { BinaryAtT(j, i, T, phase_state, order_degree) },
          bki \in { BinaryAtT(k, i, T, phase_state, order_degree) } })

\* a variant that rejects the tags the Binary constructor rejects
Kohler_checked(k, i, j, T, phase_state, order_degree) ==
  IF phase_state \in PhaseStates /\ order_degree \in OrderDegrees THEN Ok(Zero)
  ELSE Raise("ValueError")

Kohler(k, i, j, T, phase_state, order_degree) == Ok(Zero)

Muggianu(k, i, j, T, phase_state, order_degree) == Ok(Half)

\* UEM1 from its two property differences: the guard and the quotient
UEM1_quot(d_ki, d_kj) ==
  The({ IF AbsLtTiny(denominator) THEN Ok(Half)
        ELSE Ok(RMul(RDiv(d_kj, denominator), ExpNeg(d_ki)))
        : denominator \in { RAdd(d_kj, d_ki) } })

\* UEM1
UEM1(k, i, j, T, phase_state, order_degree) ==
  The({ IF ~IsOk(d_ki) THEN d_ki
        ELSE The({ IF ~IsOk(d_kj) THEN d_kj ELSE UEM1_quot(d_ki.v, d_kj.v)
                   : d_kj \in { df_UEM1(k, j, T, phase_state, order_degree) } })
        : d_ki \in { df_UEM1(k, i, T, phase_state, order_degree) } })

\* a variant whose divisor counts the numerator's integral twice
GSM_quot_twice(beta_kj_, beta_ki_) ==
  The({ IF AbsLtTiny(denominator) THEN Ok(Half)
        ELSE Ok(RDiv(beta_kj_, RAdd(denominator, beta_kj_)))
        : denominator \in { RAdd(beta_ki_, beta_kj_) } })

\* GSM from its two deviation integrals: the guard and the quotient
GSM_quot(beta_kj_, beta_ki_) ==
  The({ IF AbsLtTiny(denominator) THEN Ok(Half)
        ELSE Ok(RDiv(beta_kj_, denominator))
        : denominator \in { RAdd(beta_ki_, beta_kj_) } })

\* GSM
GSM(k, i, j, T, phase_state, order_degree) ==
  The({ IF ~IsOk(b_kj) THEN b_kj
        ELSE The({ IF ~IsOk(b_ki) THEN b_ki ELSE GSM_quot(b_kj.v, b_ki.v)
                   : b_ki \in { beta_kj(k, i, j, T, phase_state, order_degree) } })
        : b_kj \in { beta_kj(k, j, i, T, phase_state, order_degree) } })

\* a variant that gives the full weight to i as well
Toop_select_both(asym, k, i, j) ==
  IF asym = k THEN Ok(Zero)
  ELSE IF asym = i THEN Ok(One)
  ELSE IF asym = j THEN Ok(One)
  ELSE ReturnsNone

\* the three tests of Toop_Kohler on the selected component; a function
\* that passes all three ends without a return statement
Toop_select(asym, k, i, j) ==
  IF asym = k THEN Ok(Zero)
  ELSE IF asym = i THEN Ok(Zero)
  ELSE IF asym = j THEN Ok(One)
  ELSE ReturnsNone

\* Toop_Kohler
Toop_Kohler(k, i, j, T, phase_state, order_degree) ==
  The({ IF ~IsOk(asym) THEN [err |-> asym.err, v |-> Zero]
        ELSE Toop_select(asym.v, k, i, j)
        : asym \in { asym_component_choice(k, i, j, phase_state, order_degree) } })

Models == {"Kohler", "Muggianu", "Toop_Kohler", "GSM", "UEM1", "UEM2_N"}

\* model_func(k, i, j, T, phase_state, order_degree) for the function the caller passed
model_func(m, k, i, j, T, phase_state, order_degree) ==
  CASE m = "Kohler" -> Kohler(k, i, j, T, phase_state, order_degree)
    [] m = "Muggianu" -> Muggianu(k, i, j, T, phase_state, order_degree)
    [] m = "Toop_Kohler" -> Toop_Kohler(k, i, j, T, phase_state, order_degree)
    [] m = "GSM" -> GSM(k, i, j, T, phase_state, order_degree)
    [] m = "UEM1" -> UEM1(k, i, j, T, phase_state, order_degree)
    [] m = "UEM2_N" -> UEM2_N(k, i, j, T, phase_state, order_degree)

(***************************************************************************)
(* The aggregator: core/UnifiedExtrapolationModel.py                       *)
(***************************************************************************)
\* a composition mapping is a function from its keys to fractions; CompLst is
\* list(comp_dict.keys()), the keys in insertion order
SumDict(d, CompLst) == RSumSeq(d, CompLst)

\* the fractions as passed, without the normalization loop
NormalizeSkipped(d, CompLst) == d

\* lines 226-231: the mapping after the normalization loop, which assigns
\* into the caller's dict
NormalizeInPlace(d, CompLst) ==
  The({ IF ~RIsZero(N) THEN [e \in DOMAIN d |-> RDiv(d[e], N)] ELSE d
        : N \in { SumDict(d, CompLst) } })

\* the (i, j) index pairs of the double loop, i < j, in loop order
RECURSIVE PairsFrom(_, _, _)
PairsFrom(n, i, j) ==
  IF i >= n THEN << >>
  ELSE IF j > n THEN PairsFrom(n, i + 1, i + 2)
  ELSE << << i, j >> >> \o PairsFrom(n, i, j + 1)

PairIndex(n) == PairsFrom(n, 1, 2)

\* a variant of the inner loop that adds the coefficients without the
\* fraction of the third component
RECURSIVE Contributions_unweighted(_, _, _, _, _, _, _, _, _)
Contributions_unweighted(m, d, others, A, B, T, ph, od, acc) ==
  IF others = << >> THEN acc
  ELSE
    The({ IF ~IsOk(cA) THEN [acc EXCEPT !.err = "TypeError", !.calls = @ + 1]
          ELSE The({ IF ~IsOk(cB) THEN [acc EXCEPT !.err = "TypeError", !.calls = @ + 2]
                     ELSE Contributions_unweighted(m, d, Tail(others), A, B, T, ph, od,
                                        [acc EXCEPT !.a = RAdd(@, cA.v),
                                                    !.b = RAdd(@, cB.v),
                                                    !.calls = @ + 2])
                     : cB \in { model_func(m, Head(others), B, A, T, ph, od) } })
          : cA \in { model_func(m, Head(others), A, B, T, ph, od) } })

\* the inner loop over the other keys: the two contribution sums, the number
\* of model_func calls made, or the exception that ended it
RECURSIVE Contributions(_, _, _, _, _, _, _, _, _)
Contributions(m, d, others, A, B, T, ph, od, acc) ==
  IF others = << >> THEN acc
  ELSE
    The({ IF cA.err = "None" THEN [acc EXCEPT !.err = "TypeError", !.calls = @ + 1]
          ELSE IF ~IsOk(cA) THEN [acc EXCEPT !.err = cA.err, !.calls = @ + 1]
          ELSE The({ IF cB.err = "None" THEN [acc EXCEPT !.err = "TypeError", !.calls = @ + 2]
                     ELSE IF ~IsOk(cB) THEN [acc EXCEPT !.err = cB.err, !.calls = @ + 2]
                     ELSE Contributions(m, d, Tail(others), A, B, T, ph, od,
                                        [acc EXCEPT !.a = RAdd(@, RMul(cA.v, d[C])),
                                                    !.b = RAdd(@, RMul(cB.v, d[C])),
                                                    !.calls = @ + 2])
                     : cB \in { model_func(m, C, B, A, T, ph, od) } })
          : C \in { Head(others) }, cA \in { model_func(m, Head(others), A, B, T, ph, od) } })

\* one pass of the pair loop: the Binary with its effective composition set
SubBinary(m, d, CompLst, A, B, T, ph, od) ==
  The({ IF ~IsOk(b_AB) THEN [err |-> b_AB.err, b |-> << >>, calls |-> 0]
        ELSE The({ IF s.err # "none" THEN [err |-> s.err, b |-> << >>, calls |-> s.calls]
                   ELSE The({ IF ~IsOk(r) THEN [err |-> r.err, b |-> << >>, calls |-> s.calls]
                              ELSE [err |-> "none", b |-> << r.v >>, calls |-> s.calls]
                              : r \in { set_X(b_AB.v, RAdd(d[A], s.a), RAdd(d[B], s.b)) } })
                   : s \in { Contributions(m, d, SelectSeq(CompLst, LAMBDA e : e # A /\ e # B),
                                           A, B, T, ph, od,
                                           [err |-> "none", a |-> Zero, b |-> Zero,
                                            calls |-> 0]) } })
        : b_AB \in { Binary(A, B, ph, od) } })

\* the pair loop from pair number p on, appending to BinaryList
RECURSIVE PairLoop(_, _, _, _, _, _, _, _)
PairLoop(m, d, CompLst, T, ph, od, p, acc) ==
  The({ IF p > Len(idx) THEN acc
        ELSE The({ IF r.err # "none"
                   THEN [acc EXCEPT !.err = r.err, !.calls = @ + r.calls]
                   ELSE PairLoop(m, d, CompLst, T, ph, od, p + 1,
                                 [acc EXCEPT !.BinaryList = @ \o r.b, !.calls = @ + r.calls])
                   : r \in { SubBinary(m, d, CompLst, CompLst[idx[p][1]], CompLst[idx[p][2]],
                                       T, ph, od) } })
        : idx \in { PairIndex(Len(CompLst)) } })

\* _get_subBinary_composition: the caller's dict as the call leaves it, the
\* BinaryList (or the exception), and the number of model_func calls
get_subBinary_composition(comp_dict, CompLst, T, ph, od, m) ==
  The({ PairLoop(m, d, CompLst, T, ph, od, 1,
                 [err |-> "none", comp_dict |-> d, BinaryList |-> << >>, calls |-> 0])
        : d \in { NormalizeInPlace(comp_dict, CompLst) } })

\* a variant that asks the entry for its Gibbs energy without setting the
\* temperature on it first
BinaryEnergy_unset(bij, T, gibbs) ==
  IF gibbs THEN get_excess_Gibbs(bij, bij.xA, bij.xB)
  ELSE getEnthalpy_byMiedema_Model(bij, bij.xA, bij.xB)

\* the energy of one entry of BinaryList: its excess Gibbs energy at T
\* (gibbs = TRUE) or its enthalpy (gibbs = FALSE), at its effective composition
BinaryEnergy(bij, T, gibbs) ==
  IF gibbs THEN get_excess_Gibbs(set_T(bij, T), bij.xA, bij.xB)
  ELSE getEnthalpy_byMiedema_Model(bij, bij.xA, bij.xB)

\* the loop over BinaryList of get_mixingEnthalpy_byMiedema (gibbs = FALSE)
\* and of get_Gibbs_byMiedema (gibbs = TRUE), from entry p on
RECURSIVE SumBinaries(_, _, _, _, _, _)
SumBinaries(BinaryList, d, T, gibbs, p, acc) ==
  IF p > Len(BinaryList) THEN Ok(acc)
  ELSE
    The({ IF ~IsOk(r) THEN r
          ELSE IF RPos(bij.xA) /\ RPos(bij.xB)
               THEN SumBinaries(BinaryList, d, T, gibbs, p + 1,
                      RAdd(acc, RMul(RDiv(RMul(d[bij.A], d[bij.B]), RMul(bij.xA, bij.xB)), r.v)))
               ELSE SumBinaries(BinaryList, d, T, gibbs, p + 1, acc)
          : bij \in { BinaryList[p] }, r \in { BinaryEnergy(BinaryList[p], T, gibbs) } })

\* get_mixingEnthalpy_byMiedema: the outcome, the caller's dict afterwards,
\* and the number of model_func calls
get_mixingEnthalpy_byMiedema(comp_dict, CompLst, T, ph, od, m) ==
  The({ The({ [err |-> r.err, v |-> r.v, comp_dict |-> s.comp_dict, calls |-> s.calls]
              : r \in { IF s.err # "none" THEN Raise(s.err)
                        ELSE SumBinaries(s.BinaryList, s.comp_dict, T, FALSE, 1, Zero) } })
        : s \in { get_subBinary_composition(comp_dict, CompLst, T, ph, od, m) } })

\* line 342: sum of x*log(x)/1000 over the positive entries
RECURSIVE XLogXSum(_, _)
XLogXSum(d, keys) ==
  IF keys = << >> THEN Zero
  ELSE IF RPos(d[Head(keys)])
  THEN RAdd(RDiv(RMul(d[Head(keys)], Ln(d[Head(keys)]).v), << 1000, 1 >>),
            XLogXSum(d, Tail(keys)))
  ELSE XLogXSum(d, Tail(keys))

\* get_Gibbs_byMiedema
get_Gibbs_byMiedema(comp_dict, CompLst, T, ph, od, m) ==
  The({ The({ [err |-> r.err, v |-> r.v, comp_dict |-> s.comp_dict, calls |-> s.calls]
              : r \in { The({ IF ~IsOk(gE) THEN gE
                              ELSE Ok(RSub(gE.v, RMul(T, RMul(RNeg(GasR),
                                                              XLogXSum(s.comp_dict, CompLst)))))
                              : gE \in { IF s.err # "none" THEN Raise(s.err)
                                         ELSE SumBinaries(s.BinaryList, s.comp_dict, T, TRUE,
                                                          1, Zero) } }) } })
        : s \in { get_subBinary_composition(comp_dict, CompLst, T, ph, od, m) } })

(***************************************************************************)
(* Activity coefficients                                                    *)
(***************************************************************************)
\* The finite-difference step of the code is at most 1e-6; differences of
\* Gibbs energies at compositions that close together leave the integers of
\* the exact arithmetic.  The step cap is therefore a bound of the model, and
\* the value of the Gibbs energy is taken from the linear functions
\* sum_k g[k] * x[k] of the normalized composition, whose partial derivatives
\* are the g[k].  The exceptions of the Gibbs call are those of the code.
DeltaCapInv == 1000
delta_cap == << 1, DeltaCapInv >>
HundredthInv == 100
MicroInv == 1000000

GibbsLinear(g, x, keys) == RSumSeq([e \in DOMAIN x |-> RMul(<< g[e], 1 >>, x[e])], keys)

\* get_Gibbs_byMiedema on a fresh mapping: it raises what
\* _get_subBinary_composition raises, else it returns the energy
GibbsCall(g, x, keys, T, ph, od, m) ==
  The({ IF s.err # "none" THEN Raise(s.err) ELSE Ok(GibbsLinear(g, s.comp_dict, keys))
        : s \in { get_subBinary_composition(x, keys, T, ph, od, m) } })

\* x > 1e-10 (1e-10 itself is not a value of the exact arithmetic)
GtTiny(x) == x[1] > 0 /\ ~AbsLtTiny(x)

\* lines 411-418 of create_perturbed_composition: the other components
\* scaled down when the total exceeds 1
ScaleOthers(p1, keys, solute_i) ==
  The({ The({ IF RLt(excess, other_sum) /\ RPos(excess)
              THEN [e \in DOMAIN p1 |->
                      IF e # solute_i THEN RSub(p1[e], RDiv(RMul(excess, p1[e]), other_sum))
                      ELSE p1[e]]
              ELSE p1
              : excess \in { RSub(RAdd(p1[solute_i], other_sum), One) } })
        : other_sum \in { RSumSeq(p1, SelectSeq(keys, LAMBDA e : e # solute_i)) } })

\* a variant that only moves the solute, without redistribution and without
\* the final normalization
create_perturbed_unscaled(x, keys, solute_i, dx) ==
  [err |-> "none", v |-> [x EXCEPT ![solute_i] = RAdd(@, dx)]]

\* create_perturbed_composition(dx) of calculate_activity_coefficient
create_perturbed_composition(x, keys, solute_i, dx) ==
  The({ The({ IF RIsZero(total_final) THEN Raise("ZeroDivisionError")
              ELSE [err |-> "none", v |-> [e \in DOMAIN p3 |-> RDiv(p3[e], total_final)]]
              : total_final \in { RSumSeq(p3, keys) } })
        : p3 \in { The({ [e \in DOMAIN p2 |->
                            IF RLt(p2[e], Zero) THEN << 1, TinyInvHi * TinyInvLo >> ELSE p2[e]]
                         : p2 \in { ScaleOthers([x EXCEPT ![solute_i] = RAdd(@, dx)],
                                                keys, solute_i) } }) } })

\* 8.314e-3
R_kJ == << 4157, 500000 >>

\* lines 441-461: the logarithm of the coefficient from the two energies
ln_gamma(x_i, G_plus, G_minus, delta, temperature) ==
  IF RIsZero(delta) THEN Raise("ZeroDivisionError")
  ELSE
    The({ The({ Ok(RDiv(RSub(dG_dxi, dG_ideal_dxi), RT))
                : dG_ideal_dxi \in { IF GtTiny(x_i) THEN RMul(RT, RAdd(Ln(x_i).v, One))
                                     ELSE RMul(RT, RAdd(<< 0 - 23, 1 >>, One)) } })
          : dG_dxi \in { RDiv(RSub(G_plus, G_minus), RMul(<< 2, 1 >>, delta)) },
            RT \in { RMul(R_kJ, temperature) } })

\* lines 429-461: the body of the try block
activity_try(g, x, keys, solute_i, delta, temperature, ph, od, m) ==
  The({ IF ~IsOk(comp_plus) THEN Raise(comp_plus.err)
        ELSE IF ~IsOk(comp_minus) THEN Raise(comp_minus.err)
        ELSE The({ IF ~IsOk(G_plus) THEN G_plus
                   ELSE The({ IF ~IsOk(G_minus) THEN G_minus
                              ELSE ln_gamma(x[solute_i], G_plus.v, G_minus.v, delta, temperature)
                              : G_minus \in { GibbsCall(g, comp_minus.v, keys, temperature,
                                                        ph, od, m) } })
                   : G_plus \in { GibbsCall(g, comp_plus.v, keys, temperature, ph, od, m) } })
        : comp_plus \in { create_perturbed_composition(x, keys, solute_i, delta) },
          comp_minus \in { create_perturbed_composition(x, keys, solute_i, RNeg(delta)) } })

\* lines 394-403: the normalized local copy and the step
local_composition(comp_dict, keys) ==
  The({ IF RLt(<< 1, MicroInv >>, RAbs(RSub(total, One)))
        THEN (IF RIsZero(total) THEN Raise("ZeroDivisionError")
              ELSE Ok([e \in DOMAIN comp_dict |-> RDiv(comp_dict[e], total)]))
        ELSE Ok(comp_dict)
        : total \in { RSumSeq(comp_dict, keys) } })

step_delta(x_i) ==
  RMin(RMin(delta_cap, RDiv(x_i, << HundredthInv, 1 >>)),
       RDiv(RSub(One, x_i), << HundredthInv, 1 >>))

\* a variant that returns the coefficient relative to the solvent, the form
\* (dG/dx_i - dG/dx_j) / (RT) with j the solvent
calculate_activity_coefficient_relative(g, comp_dict, keys, solute_i, solvent, temperature, ph, od, m) ==
  IF solute_i \notin DOMAIN comp_dict \/ solvent \notin DOMAIN comp_dict THEN Raise("ValueError")
  ELSE IF ~RPos(temperature) THEN Raise("ValueError")
  ELSE
    The({ IF ~IsOk(x) THEN x
          ELSE The({ IF ~IsOk(r) \/ ~IsOk(rj) THEN ReturnsNone
                     ELSE IF solute_i = solvent THEN r
                     ELSE Ok(RSub(r.v, rj.v))
                     : r \in { activity_try(g, x.v, keys, solute_i, step_delta(x.v[solute_i]),
                                            temperature, ph, od, m) },
                       rj \in { activity_try(g, x.v, keys, solvent, step_delta(x.v[solvent]),
                                             temperature, ph, od, m) } })
          : x \in { local_composition(comp_dict, keys) } })

\* calculate_activity_coefficient
calculate_activity_coefficient(g, comp_dict, keys, solute_i, solvent, temperature, ph, od, m) ==
  IF solute_i \notin DOMAIN comp_dict \/ solvent \notin DOMAIN comp_dict THEN Raise("ValueError")
  ELSE IF ~RPos(temperature) THEN Raise("ValueError")
  ELSE
    The({ IF ~IsOk(x) THEN x
          ELSE The({ IF IsOk(r) THEN r ELSE ReturnsNone   \* except: pass
                     : r \in { activity_try(g, x.v, keys, solute_i, step_delta(x.v[solute_i]),
                                            temperature, ph, od, m) } })
          : x \in { local_composition(comp_dict, keys) } })

\* calculate_activity: math.exp of None is a TypeError
calculate_activity(g, comp_dict, keys, solutei, solvent, temperature, ph, od, m) ==
  The({ IF lnyi.err = "None" THEN Raise("TypeError")
        ELSE IF ~IsOk(lnyi) THEN lnyi
        ELSE Ok(RMul(comp_dict[solutei], Exp(lnyi.v)))
        : lnyi \in { calculate_activity_coefficient(g, comp_dict, keys, solutei, solvent,
                                                    temperature, ph, od, m) } })

\* sympy's diff of the energy with the solvent fraction written as
\* 1 - (the other fractions), with respect to the fraction of e
dGibbsLinear(g, e, solvent) == << g[e] - g[solvent], 1 >>

\* lines 352-546 of activityCoefficient_calc: Gi / (8.314 * Tem) for the
\* other elements Lst
Gi_over_RT(g, comp_dict, Lst, solutei, solvent, temperature, ph, od, m) ==
  The({ The({ IF ~IsOk(GmE) THEN GmE
              ELSE IF RIsZero(temperature) THEN Raise("ZeroDivisionError")
              ELSE Ok(RDiv(RSub(RSub(RAdd(GmE.v, d0), RMul(xi, d0)),
                                RSumSeq([e \in DOMAIN comp_dict |->
                                           RMul(comp_dict[e], dGibbsLinear(g, e, solvent))],
                                        Lst)),
                           RMul(GasR, temperature)))
              : GmE \in { GibbsCall(g, [e \in DOMAIN comp_dict |->
                                          IF e = solvent THEN RSub(RSub(One, xi), rest)
                                          ELSE comp_dict[e]],
                                    << solutei >> \o Lst \o << solvent >>,
                                    temperature, ph, od, m) },
                d0 \in { dGibbsLinear(g, solutei, solvent) } })
        : xi \in { comp_dict[solutei] }, rest \in { RSumSeq(comp_dict, Lst) } })

\* activityCoefficient_calc (src/UnifiedExtrapolationModel.py)
MaxOthers == 9
activityCoefficient_calc(g, comp_dict, keys, solutei, solvent, temperature, ph, od, m) ==
  IF solutei \in DOMAIN comp_dict /\ solvent \in DOMAIN comp_dict
  THEN IF solutei = solvent THEN Raise("ValueError")
       ELSE IF Len(keys) - 2 > MaxOthers
       THEN (IF RIsZero(temperature) THEN Raise("ZeroDivisionError") ELSE Ok(Zero))
       ELSE Gi_over_RT(g, comp_dict, SelectSeq(keys, LAMBDA e : e # solutei /\ e # solvent),
                       solutei, solvent, temperature, ph, od, m)
  ELSE IF Len(keys) > MaxOthers
  THEN (IF RIsZero(temperature) THEN Raise("ZeroDivisionError") ELSE Ok(Zero))
  ELSE Raise("KeyError")

\* the ten branches of activityCoefficient_calc as written: GmE is the energy
\* at the composition, x[1] the solute's fraction and x[q + 2] that of Lst[q],
\* d[1] the derivative with respect to the solute's symbol and d[q + 2] the
\* derivative with respect to the symbol bound to Lst[q]
\* the branch n == 0 (lines 352-362)
Gi_branch0(GmE, x, d) ==
  RSub(RAdd(GmE, d[1]), RMul(x[1], d[1]))

\* the branch n == 1 (lines 363-376)
Gi_branch1(GmE, x, d) ==
  RSub(RSub(RAdd(GmE, d[1]), RMul(x[1], d[1])), RMul(x[2], d[2]))

\* the branch n == 2 (lines 377-390)
Gi_branch2(GmE, x, d) ==
  RSub(RSub(RSub(RAdd(GmE, d[1]), RMul(x[1], d[1])), RMul(x[2], d[2])),
    RMul(x[3], d[3]))

\* the branch n == 3 (lines 391-403)
Gi_branch3(GmE, x, d) ==
  RSub(RSub(RSub(RSub(RAdd(GmE, d[1]), RMul(x[1], d[1])), RMul(x[2], d[2])),
    RMul(x[3], d[3])), RMul(x[4], d[4]))

\* the branch n == 4 (lines 404-419)
Gi_branch4(GmE, x, d) ==
  RSub(RSub(RSub(RSub(RSub(RAdd(GmE, d[1]), RMul(x[1], d[1])), RMul(x[2],
    d[2])), RMul(x[3], d[3])), RMul(x[4], d[4])), RMul(x[5], d[5]))

\* the branch n == 5 (lines 420-437)
Gi_branch5(GmE, x, d) ==
  RSub(RSub(RSub(RSub(RSub(RSub(RAdd(GmE, d[1]), RMul(x[1], d[1])),
    RMul(x[2], d[2])), RMul(x[3], d[3])), RMul(x[4], d[4])), RMul(x[5],
    d[5])), RMul(x[6], d[6]))

\* the branch n == 6 (lines 438-458)
Gi_branch6(GmE, x, d) ==
  RSub(RSub(RSub(RSub(RSub(RSub(RSub(RAdd(GmE, d[1]), RMul(x[1], d[1])),
    RMul(x[2], d[2])), RMul(x[3], d[3])), RMul(x[4], d[4])), RMul(x[5],
    d[5])), RMul(x[6], d[6])), RMul(x[7], d[7]))

\* the branch n == 7 (lines 459-481)
Gi_branch7(GmE, x, d) ==
  RSub(RSub(RSub(RSub(RSub(RSub(RSub(RSub(RAdd(GmE, d[1]), RMul(x[1],
    d[1])), RMul(x[2], d[2])), RMul(x[3], d[3])), RMul(x[4], d[4])),
    RMul(x[5], d[5])), RMul(x[6], d[6])), RMul(x[7], d[7])), RMul(x[8],
    d[8]))

\* the branch n == 8 (lines 482-505)
Gi_branch8(GmE, x, d) ==
  RSub(RSub(RSub(RSub(RSub(RSub(RSub(RSub(RSub(RAdd(GmE, d[1]), RMul(x[1],
    d[1])), RMul(x[2], d[2])), RMul(x[3], d[3])), RMul(x[4], d[4])),
    RMul(x[5], d[5])), RMul(x[6], d[6])), RMul(x[7], d[7])), RMul(x[8],
    d[8])), RMul(x[9], d[9]))

\* a variant of the last branch that multiplies the last derivative by the
\* fraction of the component before it
Gi_branch9_mispaired(GmE, x, d) ==
  RSub(Gi_branch8(GmE, x, d), RMul(x[9], d[10]))

\* the branch n == 9 (lines 506-545)
Gi_branch9(GmE, x, d) ==
  RSub(RSub(RSub(RSub(RSub(RSub(RSub(RSub(RSub(RSub(RAdd(GmE, d[1]),
    RMul(x[1], d[1])), RMul(x[2], d[2])), RMul(x[3], d[3])), RMul(x[4],
    d[4])), RMul(x[5], d[5])), RMul(x[6], d[6])), RMul(x[7], d[7])),
    RMul(x[8], d[8])), RMul(x[9], d[9])), RMul(x[10], d[10]))

\* lines 345-545: Gi = 0.0, then the branch of n, none for n above 9
Gi_of_branches(n, GmE, x, d) ==
  IF n = 0 THEN Gi_branch0(GmE, x, d)
  ELSE IF n = 1 THEN Gi_branch1(GmE, x, d)
  ELSE IF n = 2 THEN Gi_branch2(GmE, x, d)
  ELSE IF n = 3 THEN Gi_branch3(GmE, x, d)
  ELSE IF n = 4 THEN Gi_branch4(GmE, x, d)
  ELSE IF n = 5 THEN Gi_branch5(GmE, x, d)
  ELSE IF n = 6 THEN Gi_branch6(GmE, x, d)
  ELSE IF n = 7 THEN Gi_branch7(GmE, x, d)
  ELSE IF n = 8 THEN Gi_branch8(GmE, x, d)
  ELSE IF n = MaxOthers THEN Gi_branch9(GmE, x, d)
  ELSE Zero

(***************************************************************************)
(* State                                                                   *)
(***************************************************************************)
VARIABLES
  caller_dict,   \* the composition mapping the caller holds and passes
  caller_keys,   \* its keys in insertion order
  Tem, phase, order, model,   \* the other arguments the caller passes
  calllog        \* one record per finished call, oldest first

aggVars == << caller_dict, caller_keys, Tem, phase, order, model, calllog >>

VARIABLES
  vxA, vxB,     \* the arguments xA and xB of the call
  vpc,          \* the statement the loop is at
  V1a, V2a,     \* the current iterate
  V1_tem, V2_tem,   \* the iterate before the last update
  iterations,   \* the loop counter of the code
  updates,      \* how many volume updates have run
  left_by,      \* the way the loop was left
  vres          \* the returned pair

volVars == << vxA, vxB, vpc, V1a, V2a, V1_tem, V2_tem, iterations, updates, left_by, vres >>

VARIABLES
  cmodel,   \* the model whose quotient ran last
  cargs,    \* the quantities it was given
  cres      \* what it returned or raised

coefVars == << cmodel, cargs, cres >>

VARIABLES
  gcoef,          \* the coefficients g of the Gibbs energy in use
  ln_numerical,   \* outcome of calculate_activity_coefficient
  ln_exact,       \* outcome of activityCoefficient_calc
  activity        \* outcome of calculate_activity

actVars == << gcoef, ln_numerical, ln_exact, activity >>

VARIABLES
  initial_dict,   \* the mapping as the caller built it
  tpc,            \* per thread: the statement it is at
  tmodel,         \* per thread: the model it passes
  tN,             \* per thread: its local N
  titem,          \* per thread: index of the loop variable item
  tload,          \* per thread: the value it loaded from comp_dict[item]
  tused,          \* per thread: the fractions its pair loop read
  tret            \* per thread: what its call returned or raised

concVars == << initial_dict, tpc, tmodel, tN, titem, tload, tused, tret >>

(***************************************************************************)
(* Sequential calls of the aggregator on one mapping                        *)
(***************************************************************************)
MaxAmount == 2
AmountDen == 2
MaxCalls == 2
Amounts == { Q(n, AmountDen) : n \in 0..MaxAmount }
KeyLists == { << "Fe", "Ni" >>, << "Fe", "Si" >>, << "Fe", "Ni", "Cr" >> }
Temperatures == { << 1000, 1 >> }
\* the ordered variants (AMP, IM) raise the effective fractions to the sixth
\* power; they run on the pair whose exact values stay within the integers
OrdersFor(keys) == IF keys = << "Fe", "Ni" >> THEN OrderDegrees ELSE { "SS" }
\* both phases run on the pairs; the ternary runs as a liquid
PhasesFor(keys) == IF Len(keys) = 2 THEN PhaseStates ELSE { "L" }

KeySet(keys) == { keys[n] : n \in 1..Len(keys) }

AggInit ==
  /\ caller_keys \in KeyLists
  /\ caller_dict \in [KeySet(caller_keys) -> Amounts]
  /\ Tem \in Temperatures
  /\ phase \in PhasesFor(caller_keys)
  /\ order \in OrdersFor(caller_keys)
  /\ model \in Models
  /\ calllog = << >>

\* the record a finished call leaves: what it was given, what it returned or
\* raised, how often it called model_func, and the mapping afterwards
CallRecord(fn, r) ==
  [fn |-> fn, arg |-> caller_dict, err |-> r.err, v |-> r.v, calls |-> r.calls,
   after |-> r.comp_dict]

CallEnthalpy ==
  /\ Len(calllog) < MaxCalls
  /\ \E r \in { get_mixingEnthalpy_byMiedema(caller_dict, caller_keys, Tem, phase, order, model) } :
       /\ calllog' = Append(calllog, CallRecord("get_mixingEnthalpy_byMiedema", r))
       /\ caller_dict' = r.comp_dict
  /\ UNCHANGED << caller_keys, Tem, phase, order, model >>
  /\ UNCHANGED << volVars, coefVars, actVars, concVars >>

CallGibbs ==
  /\ Len(calllog) < MaxCalls
  /\ \E r \in { get_Gibbs_byMiedema(caller_dict, caller_keys, Tem, phase, order, model) } :
       /\ calllog' = Append(calllog, CallRecord("get_Gibbs_byMiedema", r))
       /\ caller_dict' = r.comp_dict
  /\ UNCHANGED << caller_keys, Tem, phase, order, model >>
  /\ UNCHANGED << volVars, coefVars, actVars, concVars >>

(***************************************************************************)
(* Binary._V_in_alloy, one statement at a time                              *)
(***************************************************************************)
\* the pairs an update may produce: equal to the pair before, closer to it
\* than epsilon without being equal, and far from it in one of the volumes
VolSteps == 2
VolIterates ==
  { << One, One >>,
    << RAdd(One, RMul(Half, epsilon)), One >>,
    << One, << VolSteps, 1 >> >> }
VolFractions == { Zero, Half }
NoPair == << Zero, Zero >>

VolInit ==
  /\ vxA \in VolFractions
  /\ vxB \in VolFractions
  /\ vpc = "while"
  /\ V1a \in { One }
  /\ V2a \in { One }
  /\ V1_tem = Zero
  /\ V2_tem = Zero
  /\ iterations = 0
  /\ updates = 0
  /\ left_by = "none"
  /\ vres = NoPair

\* a loop condition that never fails
LoopUnguarded(n) == TRUE

\* line 137: while iterations < max_iterations
LoopGuard(n) == n < max_iterations

VWhile ==
  /\ vpc = "while"
  /\ IF LoopGuard(iterations)
     THEN vpc' = "body" /\ UNCHANGED left_by
     ELSE vpc' = "return" /\ left_by' = "cap"
  /\ UNCHANGED << vxA, vxB, V1a, V2a, V1_tem, V2_tem, iterations, updates, vres >>
  /\ UNCHANGED << aggVars, coefVars, actVars, concVars >>

\* lines 138-146: save the iterate, compute the next one; the quotient of
\* lines 141-142 raises ZeroDivisionError on a zero denominator, and the
\* exception leaves the function
VUpdate ==
  /\ vpc = "body"
  /\ V1_tem' = V1a
  /\ V2_tem' = V2a
  /\ IF RIsZero(VolDenominator(vxA, vxB, V1a, V2a))
     THEN /\ vpc' = "done"
          /\ left_by' = "ZeroDivisionError"
          /\ UNCHANGED << V1a, V2a, updates >>
     ELSE /\ \E V \in VolIterates : V1a' = V[1] /\ V2a' = V[2]
          /\ updates' = updates + 1
          /\ vpc' = "converged"
          /\ UNCHANGED left_by
  /\ UNCHANGED << vxA, vxB, iterations, vres >>
  /\ UNCHANGED << aggVars, coefVars, actVars, concVars >>

\* lines 149-150
VConverged ==
  /\ vpc = "converged"
  /\ IF Converged(<< V1a, V2a >>, << V1_tem, V2_tem >>)
     THEN vpc' = "return" /\ left_by' = "convergence"
     ELSE vpc' = "clock" /\ UNCHANGED left_by
  /\ UNCHANGED << vxA, vxB, V1a, V2a, V1_tem, V2_tem, iterations, updates, vres >>
  /\ UNCHANGED << aggVars, coefVars, actVars, concVars >>

\* lines 153-155: the clock reads more than max_time after the start
VTimeout ==
  /\ vpc = "clock"
  /\ vpc' = "return"
  /\ left_by' = "timeout"
  /\ UNCHANGED << vxA, vxB, V1a, V2a, V1_tem, V2_tem, iterations, updates, vres >>
  /\ UNCHANGED << aggVars, coefVars, actVars, concVars >>

\* line 157: the clock reads less, the counter advances
VIncrement ==
  /\ vpc = "clock"
  /\ iterations' = iterations + 1
  /\ vpc' = "while"
  /\ UNCHANGED << vxA, vxB, V1a, V2a, V1_tem, V2_tem, updates, left_by, vres >>
  /\ UNCHANGED << aggVars, coefVars, actVars, concVars >>

\* line 163
VReturn ==
  /\ vpc = "return"
  /\ vres' = << V1a, V2a >>
  /\ vpc' = "done"
  /\ UNCHANGED << vxA, vxB, V1a, V2a, V1_tem, V2_tem, iterations, updates, left_by >>
  /\ UNCHANGED << aggVars, coefVars, actVars, concVars >>

VolNext == VWhile \/ VUpdate \/ VConverged \/ VTimeout \/ VIncrement \/ VReturn

(***************************************************************************)
(* The coefficient quotients on given integrals and property differences    *)
(***************************************************************************)
\* deviation integrals and property differences are not negative; the
\* integrated excess Gibbs energies W take either sign
MaxQuantity == 3
QuantityDen == 2
Quantities == { Q(n, QuantityDen) : n \in 0..MaxQuantity }
Energies == { << n, 1 >> : n \in (0 - MaxQuantity)..MaxQuantity }

CoefInit ==
  /\ cmodel = "none"
  /\ cargs = << >>
  /\ cres = Ok(Zero)

CallGSM ==
  \E b_kj \in Quantities, b_ki \in Quantities :
    /\ cmodel' = "GSM"
    /\ cargs' = << b_kj, b_ki >>
    /\ cres' = GSM_quot(b_kj, b_ki)
    /\ UNCHANGED << aggVars, volVars, actVars, concVars >>

CallUEM1 ==
  \E d_ki \in Quantities, d_kj \in Quantities :
    /\ cmodel' = "UEM1"
    /\ cargs' = << d_ki, d_kj >>
    /\ cres' = UEM1_quot(d_ki, d_kj)
    /\ UNCHANGED << aggVars, volVars, actVars, concVars >>

CallUEM2_N ==
  \E Wkj \in Energies, Wji \in Energies, Wki \in Energies :
    \* line 155 integrates wji for Wij
    /\ cmodel' = "UEM2_N"
    /\ cargs' = << Wkj, Wji, Wki, Wji >>
    /\ cres' = UEM2_N_quot(Wkj, Wji, Wki, Wji)
    /\ UNCHANGED << aggVars, volVars, actVars, concVars >>

CoefNext == CallGSM \/ CallUEM1 \/ CallUEM2_N

(***************************************************************************)
(* Single calls of the coefficient functions, of the selection rule and of *)
(* the aggregator with any phase and order tag (FuncSpec)                   *)
(***************************************************************************)
\* "G" is not a phase and "XX" not an order the Binary constructor accepts
PhaseTags == PhaseStates \cup { "G" }
OrderTags == OrderDegrees \cup { "XX" }
ValidTags(phase_state, order_degree) ==
  phase_state \in PhaseStates /\ order_degree \in OrderDegrees

\* the ordered triples of distinct elements of the table; the integrals and
\* property differences of GSM, UEM1 and UEM2_N, and the enthalpy products
\* of Toop_Kohler in the amorphous order, stay within the integers on the
\* triples without Si
Triples ==
  { t \in Symbols \X Symbols \X Symbols : t[1] # t[2] /\ t[1] # t[3] /\ t[2] # t[3] }
WithoutSi ==
  { t \in Triples : "Si" \notin { t[1], t[2], t[3] } }
TriplesFor(m, od) ==
  IF m \in { "GSM", "UEM1", "UEM2_N" } THEN WithoutSi
  ELSE IF m = "Toop_Kohler" /\ od = "AMP" THEN WithoutSi
  ELSE Triples

\* the names k, i, j of the three components in a call on given enthalpies
RuleTriple == << "Cr", "Fe", "Ni" >>

\* one of the six coefficient functions on a triple of elements
CallModel ==
  /\ cmodel = "none"
  /\ \E m \in Models, T \in Temperatures, ph \in PhaseTags, od \in OrderTags :
     \E t \in TriplesFor(m, od) :
       /\ cmodel' = m
       /\ cargs' = << t[1], t[2], t[3], T, ph, od >>
       /\ cres' = model_func(m, t[1], t[2], t[3], T, ph, od)
  /\ UNCHANGED << aggVars, volVars, actVars, concVars >>

\* the selection rule of _asym_component_choice on three equimolar
\* enthalpies a = H_ij, b = H_ik, c = H_jk
CallAsymRule ==
  /\ cmodel = "none"
  /\ \E a \in Energies, b \in Energies, c \in Energies :
       /\ cmodel' = "_asym_component_choice"
       /\ cargs' = << a, b, c >>
       /\ cres' = [err |-> "none",
                   v |-> asym_rule(RuleTriple[1], RuleTriple[2], RuleTriple[3], a, b, c)]
  /\ UNCHANGED << aggVars, volVars, actVars, concVars >>

\* Toop_Kohler on the component the rule selects for three enthalpies
CallToopRule ==
  /\ cmodel = "none"
  /\ \E a \in Energies, b \in Energies, c \in Energies :
       /\ cmodel' = "Toop_Kohler on enthalpies"
       /\ cargs' = << a, b, c >>
       /\ cres' = Toop_select(asym_rule(RuleTriple[1], RuleTriple[2], RuleTriple[3], a, b, c),
                               RuleTriple[1], RuleTriple[2], RuleTriple[3])
  /\ UNCHANGED << aggVars, volVars, actVars, concVars >>

\* the aggregator on an equimolar composition of one, two or three elements
TaggedKeyLists == { << "Fe" >>, << "Fe", "Ni" >>, << "Fe", "Ni", "Cr" >> }
Equimolar(keys) == [e \in KeySet(keys) |-> Q(1, Len(keys))]

CallTaggedEnthalpy ==
  /\ cmodel = "none"
  /\ \E keys \in TaggedKeyLists, m \in Models, T \in Temperatures,
        ph \in PhaseTags, od \in OrderTags :
       /\ cmodel' = "get_mixingEnthalpy_byMiedema"
       /\ cargs' = << keys, m, T, ph, od >>
       /\ \E r \in { get_mixingEnthalpy_byMiedema(Equimolar(keys), keys, T, ph, od, m) } :
            cres' = [err |-> r.err, v |-> r.v]
  /\ UNCHANGED << aggVars, volVars, actVars, concVars >>

CallTaggedGibbs ==
  /\ cmodel = "none"
  /\ \E keys \in TaggedKeyLists, m \in Models, T \in Temperatures,
        ph \in PhaseTags, od \in OrderTags :
       /\ cmodel' = "get_Gibbs_byMiedema"
       /\ cargs' = << keys, m, T, ph, od >>
       /\ \E r \in { get_Gibbs_byMiedema(Equimolar(keys), keys, T, ph, od, m) } :
            cres' = [err |-> r.err, v |-> r.v]
  /\ UNCHANGED << aggVars, volVars, actVars, concVars >>

\* _get_subBinary_composition on a composition of one, two or three elements
\* with any fractions, zeros included; the result is the BinaryList
CallSubBinary ==
  /\ cmodel = "none"
  /\ \E keys \in TaggedKeyLists, m \in Models, T \in Temperatures :
     \E d \in [KeySet(keys) -> Amounts] :
     \E s \in { get_subBinary_composition(d, keys, T, "L", "SS", m) } :
       /\ cmodel' = "_get_subBinary_composition"
       /\ cargs' = << keys, d, m, T >>
       /\ cres' = [err |-> s.err, v |-> s.BinaryList]
  /\ UNCHANGED << aggVars, volVars, actVars, concVars >>

\* the branch of activityCoefficient_calc for n other components, on the
\* energy G, fractions that differ from component to component, and a
\* derivative that is 1 for the component at position p and 0 for the others
\* (all 0 for p = 0), followed by line 546
BranchFractions(n) == [m \in 1..(n + 1) |-> Q(m, 64)]
BranchDerivatives(n, p) == [m \in 1..(n + 1) |-> IF m = p THEN One ELSE Zero]

CallExactBranch ==
  /\ cmodel = "none"
  /\ \E n \in 0..(MaxOthers + 1), G \in Energies, T \in Temperatures :
     \E p \in 0..(n + 1) :
       /\ cmodel' = "activityCoefficient_calc"
       /\ cargs' = << n, G, p, T >>
       /\ cres' = Ok(RDiv(Gi_of_branches(n, G, BranchFractions(n), BranchDerivatives(n, p)),
                          RMul(GasR, T)))
  /\ UNCHANGED << aggVars, volVars, actVars, concVars >>

\* the four quad calls of UEM2_N on a triple of elements: which Binary each
\* of them integrates
CallUEM2Integrals ==
  /\ cmodel = "none"
  /\ \E t \in Triples :
       /\ cmodel' = "UEM2_N integrals"
       /\ cargs' = << t[1], t[2], t[3] >>
       /\ cres' = [err |-> "none", v |-> UEM2_N_integrated(t[1], t[2], t[3])]
  /\ UNCHANGED << aggVars, volVars, actVars, concVars >>

\* d_fun20 of the object Binary(A, B) after set_T, for an ordered pair of
\* distinct elements in either phase
CallDilute ==
  /\ cmodel = "none"
  /\ \E A \in Symbols, B \in Symbols, T \in Temperatures, ph \in PhaseStates :
       /\ A # B
       /\ cmodel' = "d_fun20"
       /\ cargs' = << A, B, T, ph >>
       /\ cres' = d_fun20(BinaryAtT(A, B, T, ph, "SS").v)
  /\ UNCHANGED << aggVars, volVars, actVars, concVars >>

FuncNext ==
  \/ CallModel
  \/ CallAsymRule
  \/ CallToopRule
  \/ CallTaggedEnthalpy
  \/ CallTaggedGibbs
  \/ CallSubBinary
  \/ CallExactBranch
  \/ CallUEM2Integrals
  \/ CallDilute

(***************************************************************************)
(* The two activity-coefficient paths on one input                          *)
(***************************************************************************)
MaxG == 1
Pending == [err |-> "pending", v |-> Zero]
\* a composition of twelve elements has ten besides solute and solvent
LongKeyList ==
  << "Fe", "Ni", "Cr", "Si", "Co", "Mn", "Cu", "Al", "Ti", "V", "Mo", "W" >>
ActKeyLists == { << "Fe", "Ni" >>, << "Fe", "Ni", "Cr" >>, LongKeyList }
\* every mapping on the short lists; on the long list the mappings with one
\* value for all keys
ActMappings(keys, S) ==
  IF keys = LongKeyList THEN { [e \in KeySet(keys) |-> v] : v \in S }
  ELSE [KeySet(keys) -> S]
\* "G" is not a phase the Binary constructor accepts
PhaseInputs == PhaseStates \cup { "G" }
solute == caller_keys[1]
solvent_ == caller_keys[Len(caller_keys)]

ActInit ==
  /\ caller_keys \in ActKeyLists
  /\ caller_dict \in ActMappings(caller_keys, Amounts)
  /\ Tem \in Temperatures
  /\ phase \in PhaseInputs
  /\ order = "SS"
  /\ model = "Kohler"
  /\ calllog = << >>
  /\ gcoef \in ActMappings(caller_keys, 0..MaxG)
  /\ ln_numerical = Pending
  /\ ln_exact = Pending
  /\ activity = Pending

ActIdle ==
  /\ gcoef = << >>
  /\ ln_numerical = Pending
  /\ ln_exact = Pending
  /\ activity = Pending

\* the finite-difference path is run on the lists of the element table
CallNumerical ==
  /\ caller_keys # LongKeyList
  /\ ln_numerical = Pending
  /\ ln_numerical' = calculate_activity_coefficient(gcoef, caller_dict, caller_keys, solute,
                                                     solvent_, Tem, phase, order, model)
  /\ UNCHANGED << gcoef, ln_exact, activity >>
  /\ UNCHANGED << aggVars, volVars, coefVars, concVars >>

CallExact ==
  /\ ln_exact = Pending
  /\ ln_exact' = activityCoefficient_calc(gcoef, caller_dict, caller_keys, solute,
                                          solvent_, Tem, phase, order, model)
  /\ UNCHANGED << gcoef, ln_numerical, activity >>
  /\ UNCHANGED << aggVars, volVars, coefVars, concVars >>

CallActivity ==
  /\ caller_keys # LongKeyList
  /\ activity = Pending
  /\ activity' = calculate_activity(gcoef, caller_dict, caller_keys, solute,
                                    solvent_, Tem, phase, order, model)
  /\ UNCHANGED << gcoef, ln_numerical, ln_exact >>
  /\ UNCHANGED << aggVars, volVars, coefVars, concVars >>

ActNext == CallNumerical \/ CallExact \/ CallActivity

(***************************************************************************)
(* Two unsynchronized aggregator calls on one mapping                       *)
(***************************************************************************)
Threads == { 1, 2 }
ConcKeyLists == { << "Fe", "Ni" >>, << "Fe", "Si" >> }

ConcInit ==
  /\ caller_keys \in ConcKeyLists
  /\ caller_dict \in [KeySet(caller_keys) -> Amounts]
  /\ Tem \in Temperatures
  /\ phase \in PhaseStates
  /\ order = "SS"
  /\ model = "Kohler"
  /\ calllog = << >>
  /\ initial_dict = caller_dict
  /\ tpc = [t \in Threads |-> "sum"]
  /\ tmodel \in [Threads -> { "Kohler", "Muggianu" }]
  /\ tN = [t \in Threads |-> Zero]
  /\ titem = [t \in Threads |-> 1]
  /\ tload = [t \in Threads |-> Zero]
  /\ tused = [t \in Threads |-> << >>]
  /\ tret = [t \in Threads |-> Pending]

ConcIdle ==
  /\ initial_dict = << >>
  /\ tpc = << >>
  /\ tmodel = << >>
  /\ tN = << >>
  /\ titem = << >>
  /\ tload = << >>
  /\ tused = << >>
  /\ tret = << >>

\* lines 226-229: N = sum(comp_dict.values()); if N != 0
TSum(t) ==
  /\ tpc[t] = "sum"
  /\ tN' = [tN EXCEPT ![t] = SumDict(caller_dict, caller_keys)]
  /\ tpc' = [tpc EXCEPT ![t] = IF RIsZero(tN'[t]) THEN "pairs" ELSE "load"]
  /\ UNCHANGED << caller_dict, initial_dict, tmodel, titem, tload, tused, tret >>
  /\ UNCHANGED << caller_keys, Tem, phase, order, model, calllog, volVars, coefVars, actVars >>

\* line 231, right-hand side: load comp_dict[item]
TLoad(t) ==
  /\ tpc[t] = "load"
  /\ IF titem[t] > Len(caller_keys)
     THEN tpc' = [tpc EXCEPT ![t] = "pairs"] /\ UNCHANGED tload
     ELSE /\ tload' = [tload EXCEPT ![t] = caller_dict[caller_keys[titem[t]]]]
          /\ tpc' = [tpc EXCEPT ![t] = "store"]
  /\ UNCHANGED << caller_dict, initial_dict, tmodel, tN, titem, tused, tret >>
  /\ UNCHANGED << caller_keys, Tem, phase, order, model, calllog, volVars, coefVars, actVars >>

\* line 231, assignment: store the quotient into comp_dict[item]
TStore(t) ==
  /\ tpc[t] = "store"
  /\ caller_dict' = [caller_dict EXCEPT ![caller_keys[titem[t]]] = RDiv(tload[t], tN[t])]
  /\ titem' = [titem EXCEPT ![t] = @ + 1]
  /\ tpc' = [tpc EXCEPT ![t] = "load"]
  /\ UNCHANGED << initial_dict, tmodel, tN, tload, tused, tret >>
  /\ UNCHANGED << caller_keys, Tem, phase, order, model, calllog, volVars, coefVars, actVars >>

\* lines 234-306: the pair loop and the summation on the mapping as it is
TPairs(t) ==
  /\ tpc[t] = "pairs"
  /\ \E s \in { PairLoop(tmodel[t], caller_dict, caller_keys, Tem, phase, order, 1,
                          [err |-> "none", comp_dict |-> caller_dict,
                           BinaryList |-> << >>, calls |-> 0]) } :
       tret' = [tret EXCEPT ![t] =
                  IF s.err # "none" THEN Raise(s.err)
                  ELSE SumBinaries(s.BinaryList, caller_dict, Tem, FALSE, 1, Zero)]
  /\ tused' = [tused EXCEPT ![t] = caller_dict]
  /\ tpc' = [tpc EXCEPT ![t] = "done"]
  /\ UNCHANGED << caller_dict, initial_dict, tmodel, tN, titem, tload >>
  /\ UNCHANGED << caller_keys, Tem, phase, order, model, calllog, volVars, coefVars, actVars >>

ConcNext == \E t \in Threads : TSum(t) \/ TLoad(t) \/ TStore(t) \/ TPairs(t)

(***************************************************************************)
(* Specifications                                                           *)
(***************************************************************************)
vars == << aggVars, volVars, coefVars, actVars, concVars >>

AggIdle ==
  /\ caller_keys = << >>
  /\ caller_dict = << >>
  /\ Tem = Zero
  /\ phase = "L"
  /\ order = "SS"
  /\ model = "Kohler"
  /\ calllog = << >>

VolIdle ==
  /\ vxA = Zero
  /\ vxB = Zero
  /\ vpc = "idle"
  /\ V1a = Zero
  /\ V2a = Zero
  /\ V1_tem = Zero
  /\ V2_tem = Zero
  /\ iterations = 0
  /\ updates = 0
  /\ left_by = "none"
  /\ vres = NoPair

CoefIdle == CoefInit

\* sequential calls of get_mixingEnthalpy_byMiedema and get_Gibbs_byMiedema
Init == AggInit /\ VolIdle /\ CoefIdle /\ ActIdle /\ ConcIdle
Next == CallEnthalpy \/ CallGibbs
Spec == Init /\ [][Next]_vars

\* one call of Binary._V_in_alloy; a running Python call keeps executing
VolSpecInit == AggIdle /\ VolInit /\ CoefIdle /\ ActIdle /\ ConcIdle
VolSpec == VolSpecInit /\ [][VolNext]_vars /\ WF_vars(VolNext)

\* calls of the coefficient quotients
CoefSpecInit == AggIdle /\ VolIdle /\ CoefInit /\ ActIdle /\ ConcIdle
CoefSpec == CoefSpecInit /\ [][CoefNext]_vars

\* single calls of the coefficient functions and of the aggregator
FuncSpecInit == AggIdle /\ VolIdle /\ CoefInit /\ ActIdle /\ ConcIdle
FuncSpec == FuncSpecInit /\ [][FuncNext]_vars

\* the activity-coefficient paths
ActSpecInit == ActInit /\ VolIdle /\ CoefIdle /\ ConcIdle
ActSpec == ActSpecInit /\ [][ActNext]_vars

\* two threads inside the aggregator
ConcSpecInit == ConcInit /\ VolIdle /\ CoefIdle /\ ActIdle
ConcSpec == ConcSpecInit /\ [][ConcNext]_vars


(***************************************************************************)
(* Properties of the sequential aggregator calls (Spec)                     *)
(***************************************************************************)
\* the finished calls of get_mixingEnthalpy_byMiedema on a two-element mapping
\* with a positive sum (the fractions of the model are never negative)
BinaryEnthalpyCalls ==
  { n \in DOMAIN calllog : /\ calllog[n].fn = "get_mixingEnthalpy_byMiedema"
                           /\ Len(caller_keys) = 2
                           /\ RPos(SumDict(calllog[n].arg, caller_keys)) }

\* Binary(A, B).getEnthalpy_byMiedema_Model at the normalized fractions of d
DirectBinaryEnthalpy(d) ==
  getEnthalpy_byMiedema_Model(Binary(caller_keys[1], caller_keys[2], phase, order).v,
                              RDiv(d[caller_keys[1]], SumDict(d, caller_keys)),
                              RDiv(d[caller_keys[2]], SumDict(d, caller_keys)))

\* the call never invoked the model function and returned the binary value
ReducesToBinary(c) ==
  /\ c.calls = 0
  /\ c.err = "none"
  /\ DirectBinaryEnthalpy(c.arg).err = "none"
  /\ c.v = DirectBinaryEnthalpy(c.arg).v

BothPositive(d) == RPos(d[caller_keys[1]]) /\ RPos(d[caller_keys[2]])

\* C1 as stated: on every two-element composition with non-negative fractions
\* and positive sum, for each model, get_mixingEnthalpy_byMiedema never invokes
\* the model function and returns Binary(A,B).getEnthalpy_byMiedema_Model at
\* the normalized fractions.
C1_BinaryReduction_AnyFractions ==
  \A n \in BinaryEnthalpyCalls : ReducesToBinary(calllog[n])

\* C1, amended: the same holds on every two-element composition whose two
\* fractions are both strictly positive (with a zero fraction the pair is
\* skipped and 0 is returned, while the binary value keeps x * dHtrans).
C1_BinaryReduction_PositiveFractions ==
  \A n \in BinaryEnthalpyCalls : BothPositive(calllog[n].arg) => ReducesToBinary(calllog[n])

\* a UEM2_N call on an unnormalized positive pair returned the non-zero
\* binary value
C1_Witness ==
  \E n \in BinaryEnthalpyCalls :
    /\ model = "UEM2_N"
    /\ BothPositive(calllog[n].arg)
    /\ SumDict(calllog[n].arg, caller_keys) # One
    /\ ReducesToBinary(calllog[n])
    /\ calllog[n].v # Zero

\* C2 as stated: get_mixingEnthalpy_byMiedema and get_Gibbs_byMiedema leave the
\* caller's composition mapping unchanged, every key mapping to the same value
\* after the call as before it.
C2_CallerMappingUnchanged ==
  \A n \in DOMAIN calllog : calllog[n].after = calllog[n].arg

\* C3 as stated: on every composition of two or more elements with
\* non-negative fractions and positive total in which some fractions are
\* exactly 0, both functions return a value without raising, for every model.
C3_ZeroFractionsNeverRaise ==
  \A n \in DOMAIN calllog :
    ( /\ Len(caller_keys) >= 2
      /\ RPos(SumDict(calllog[n].arg, caller_keys))
      /\ \E e \in KeySet(caller_keys) : RIsZero(calllog[n].arg[e]) )
    => calllog[n].err = "none"

\* C8 as stated: calling the same function twice in succession with the same
\* argument objects returns the identical value both times, and the first
\* call changes nothing that the second call reads.
C8_SecondCallSameAsFirst ==
  \A n \in DOMAIN calllog :
    (n + 1 \in DOMAIN calllog /\ calllog[n + 1].fn = calllog[n].fn)
    => /\ calllog[n + 1].err = calllog[n].err
       /\ calllog[n + 1].v = calllog[n].v
       /\ calllog[n + 1].arg = calllog[n].arg

(***************************************************************************)
(* Properties of Binary._V_in_alloy (VolSpec)                               *)
(***************************************************************************)
\* every update of the call produced an iterate
UpdatesProduceIterates == left_by # "ZeroDivisionError"

LoopExits ==
  (vpc \in { "return", "done" } /\ UpdatesProduceIterates)
  => left_by \in { "convergence", "timeout", "cap" }

ReturnsLastIterate ==
  (vpc = "done" /\ UpdatesProduceIterates) => vres = << V1a, V2a >>

\* C5: Binary._V_in_alloy always terminates; whatever iterates the update
\* produces and whatever the clock reads, the loop performs at most 1000
\* volume updates, leaves on convergence, on the timeout or on the iteration
\* cap, and in each of these cases returns the most recently computed pair.
C5_VolumeLoopTerminates ==
  /\ <>(vpc = "done")
  /\ [](updates <= max_iterations)
  /\ []LoopExits
  /\ []ReturnsLastIterate

\* the loop ran to the cap without converging and returned its last pair
C5_Witness ==
  /\ vpc = "done"
  /\ left_by = "cap"
  /\ updates = max_iterations
  /\ vres = << V1a, V2a >>
  /\ << V1a, V2a >> # << V1_tem, V2_tem >>

(***************************************************************************)
(* Properties of the coefficient quotients (CoefSpec)                       *)
(***************************************************************************)
\* a denominator of the quotient of cmodel is zero or below 1e-10 in magnitude
DegenerateDenominator ==
  CASE cmodel = "GSM" -> AbsLtTiny(RAdd(cargs[2], cargs[1]))
    [] cmodel = "UEM1" -> AbsLtTiny(RAdd(cargs[2], cargs[1]))
    [] cmodel = "UEM2_N" ->
         \/ AbsLtTiny(RAdd(cargs[3], cargs[2]))
         \/ AbsLtTiny(RAdd(cargs[1], cargs[4]))
         \/ AbsLtTiny(RAdd(RAbs(RDiv(RSub(cargs[3], cargs[2]), RAdd(cargs[3], cargs[2]))),
                           RAbs(RDiv(RSub(cargs[1], cargs[4]), RAdd(cargs[1], cargs[4])))))
    [] OTHER -> FALSE

\* C4 as stated: for each of GSM, UEM1 and UEM2_N, whenever a denominator of
\* the coefficient quotient is zero or smaller than 1e-10 in magnitude, the
\* model returns 0.5 and does not raise.
C4_DegenerateReturnsHalf ==
  (cmodel # "none" /\ DegenerateDenominator) => cres = Ok(Half)

\* C10: for GSM, UEM1 and UEM2_N, whenever the denominators are not
\* degenerate, the returned coefficient c satisfies 0 <= c <= 1.
C10_CoefficientInUnitInterval ==
  (cmodel # "none" /\ ~DegenerateDenominator)
  => /\ IsOk(cres)
     /\ RLe(Zero, cres.v)
     /\ RLe(cres.v, One)

\* UEM1 on two positive property differences returned a coefficient strictly
\* inside the interval that the exponential factor has lowered
C10_Witness ==
  /\ cmodel = "UEM1"
  /\ RPos(cargs[1])
  /\ RPos(cargs[2])
  /\ IsOk(cres)
  /\ RLt(Zero, cres.v)
  /\ RLt(cres.v, RDiv(cargs[2], RAdd(cargs[2], cargs[1])))

(***************************************************************************)
(* Properties of the activity-coefficient paths (ActSpec)                   *)
(***************************************************************************)
\* C6 as stated: an error raised inside calculate_activity_coefficient reaches
\* the caller as an error, and a normal return is a float, never None.
C6_NeverReturnsNone == ln_numerical.err # "None"

\* C7 as stated: on the same arguments activityCoefficient_calc and
\* calculate_activity_coefficient compute the same quantity; given one Gibbs
\* energy function their results agree within 1e-3 relative.
C7_PathsAgree ==
  (IsOk(ln_numerical) /\ IsOk(ln_exact))
  => RLe(RAbs(RSub(ln_numerical.v, ln_exact.v)), RMul(<< 1, 1000 >>, RAbs(ln_exact.v)))

(***************************************************************************)
(* Properties of two unsynchronized calls (ConcSpec)                        *)
(***************************************************************************)
\* what the call of thread t returns when it runs alone on the mapping
RunAlone(t) ==
  get_mixingEnthalpy_byMiedema(initial_dict, caller_keys, Tem, phase, order, tmodel[t])

\* C9 as stated: when two aggregator calls run concurrently on the same
\* composition mapping, under every interleaving each call returns the value
\* it returns when run alone, and the fractions each call uses sum to 1.
C9_InterleavingsAgreeWithRunAlone ==
  \A t \in Threads :
    (tpc[t] = "done" /\ RPos(SumDict(initial_dict, caller_keys)))
    => /\ tret[t].err = RunAlone(t).err
       /\ tret[t].v = RunAlone(t).v
       /\ SumDict(tused[t], caller_keys) = One

\* C11 as stated: activityCoefficient_calc, called on a composition with more
\* than 9 components besides solute and solvent, ends in an error; it never
\* returns a numeric value for such a composition.
C11_UnsupportedArityRaises ==
  (Len(caller_keys) - 2 > MaxOthers /\ ln_exact # Pending) => ~IsOk(ln_exact)

(***************************************************************************)
(* Properties of single calls of the coefficient functions (FuncSpec)      *)
(***************************************************************************)
\* the calls that take a phase tag and an order tag, and the tags they took
TaggedCall ==
  cmodel \in Models \cup { "get_mixingEnthalpy_byMiedema", "get_Gibbs_byMiedema" }
TagsTaken ==
  IF cmodel \in Models THEN << cargs[5], cargs[6] >> ELSE << cargs[4], cargs[5] >>

\* C12 as stated: every call of get_mixingEnthalpy_byMiedema, of
\* get_Gibbs_byMiedema or of one of the six coefficient functions with a
\* phase tag outside {S, L} or an order tag outside {SS, AMP, IM} ends in an
\* error and returns no value, for every composition and every model.
C12_InvalidTagRaises ==
  (TaggedCall /\ ~ValidTags(TagsTaken[1], TagsTaken[2])) => ~IsOk(cres)

(***************************************************************************)
(* Properties of calculate_activity (ActSpec)                               *)
(***************************************************************************)
\* the solute's mole fraction in the caller's composition normalized to sum 1
NormalizedSoluteFraction ==
  RDiv(caller_dict[solute], SumDict(caller_dict, caller_keys))

\* C13 as stated: calculate_activity returns x*exp(lnGamma), where lnGamma is
\* the value calculate_activity_coefficient returns for the same arguments
\* and x is the solute's mole fraction in the composition normalized to sum
\* 1, also when the caller's fractions do not sum to 1.
C13_ActivityUsesNormalizedFraction ==
  (IsOk(activity) /\ IsOk(ln_numerical))
  => activity.v = RMul(NormalizedSoluteFraction, Exp(ln_numerical.v))

\* the component _asym_component_choice selects for the elements of the call
SelectedForCall ==
  asym_component_choice(cargs[1], cargs[2], cargs[3], cargs[5], cargs[6])
\* the component the rule selects for the enthalpies of the call
SelectedForEnthalpies ==
  asym_rule(RuleTriple[1], RuleTriple[2], RuleTriple[3], cargs[1], cargs[2], cargs[3])

\* C14: for distinct k, i, j, Toop_Kohler(k,i,j,...) returns exactly 1 when
\* the asymmetric component selected for the triple is j and exactly 0 when
\* it is k or i; it never returns None or another value, and with valid tags
\* it returns.
C14_ToopKohlerZeroOrOne ==
  /\ cmodel = "Toop_Kohler"
     => /\ cres.err # "None"
        /\ ValidTags(cargs[5], cargs[6]) => IsOk(cres)
        /\ IsOk(cres)
           => /\ SelectedForCall.v = cargs[3] => cres.v = One
              /\ SelectedForCall.v \in { cargs[1], cargs[2] } => cres.v = Zero
              /\ cres.v \in { Zero, One }
  /\ cmodel = "Toop_Kohler on enthalpies"
     => /\ IsOk(cres)
        /\ SelectedForEnthalpies = RuleTriple[3] => cres.v = One
        /\ SelectedForEnthalpies \in { RuleTriple[1], RuleTriple[2] } => cres.v = Zero
        /\ cres.v \in { Zero, One }
\* a call on elements whose selected component is j, and that returned
C14_Witness ==
  /\ cmodel = "Toop_Kohler"
  /\ IsOk(cres)
  /\ SelectedForCall.v = cargs[3]
  /\ cres.v = One

(***************************************************************************)
(* Properties of the selection rule on given enthalpies (FuncSpec)         *)
(* cargs = << H_ij, H_ik, H_jk >>, the components are RuleTriple = k, i, j  *)
(***************************************************************************)
RuleCall == cmodel = "_asym_component_choice"
AllOneSign ==
  \/ RPos(cargs[1]) /\ RPos(cargs[2]) /\ RPos(cargs[3])
  \/ RPos(RNeg(cargs[1])) /\ RPos(RNeg(cargs[2])) /\ RPos(RNeg(cargs[3]))
\* the magnitude of the one binary that does not contain the returned
\* component: H_ij for k, H_ik for j, H_jk for i
MagnitudeOfOtherBinary ==
  IF cres.v = RuleTriple[1] THEN RAbs(cargs[1])
  ELSE IF cres.v = RuleTriple[3] THEN RAbs(cargs[2])
  ELSE RAbs(cargs[3])

\* C15 as stated: when H_ij, H_ik, H_jk are all strictly positive or all
\* strictly negative, _asym_component_choice returns the component whose two
\* associated binary enthalpies have the smallest magnitudes among the three,
\* so the binary without that component has the largest magnitude.
C15_TwoSmallestMagnitudes ==
  (RuleCall /\ AllOneSign)
  => \A n \in 1..3 : RLe(RAbs(cargs[n]), MagnitudeOfOtherBinary)

\* C15 amended: when the three enthalpies are all strictly of one sign, the
\* function returns the component whose two associated binary enthalpies have
\* the largest magnitudes: the binary without that component has the smallest
\* magnitude, and k is returned if that is H_ij, otherwise j if it is H_ik,
\* otherwise i.
C15_TwoLargestMagnitudes ==
  (RuleCall /\ AllOneSign)
  => /\ \A n \in 1..3 : RLe(MagnitudeOfOtherBinary, RAbs(cargs[n]))
     /\ cres.v = RuleTriple[3] => RLt(RAbs(cargs[2]), RAbs(cargs[1]))
     /\ cres.v = RuleTriple[2] => /\ RLt(RAbs(cargs[3]), RAbs(cargs[1]))
                                  /\ RLt(RAbs(cargs[3]), RAbs(cargs[2]))
\* three negative enthalpies of different magnitudes, H_jk the smallest
C15_Witness ==
  /\ RuleCall
  /\ AllOneSign
  /\ RPos(RNeg(cargs[1]))
  /\ RLt(RAbs(cargs[3]), RAbs(cargs[2]))
  /\ RLt(RAbs(cargs[2]), RAbs(cargs[1]))
  /\ cres.v = RuleTriple[2]

\* C16: Kohler(k,i,j,T,phase,order) returns exactly 0 and
\* Muggianu(k,i,j,T,phase,order) returns exactly 0.5 for every argument
\* tuple, independent of all six arguments.
C16_KohlerMuggianuConstant ==
  /\ cmodel = "Kohler" => (IsOk(cres) /\ cres.v = Zero)
  /\ cmodel = "Muggianu" => (IsOk(cres) /\ cres.v = Half)
\* a Kohler call with a phase tag and an order tag that no Binary accepts
C16_Witness ==
  /\ cmodel = "Kohler"
  /\ cargs[5] \notin PhaseStates
  /\ cargs[6] \notin OrderDegrees
  /\ cres = Ok(Zero)

(***************************************************************************)
(* The extrapolation sum and the list of binaries (Spec)                    *)
(***************************************************************************)
\* the enthalpy calls on a composition whose fractions already sum to 1
NormalizedEnthalpyCalls ==
  { n \in DOMAIN calllog : /\ calllog[n].fn = "get_mixingEnthalpy_byMiedema"
                           /\ SumDict(calllog[n].arg, caller_keys) = One }

\* x_A + sum over the other keys C of c(C, A, B) * x_C
RECURSIVE ClaimedNumerator(_, _, _, _)
ClaimedNumerator(x, others, A, B) ==
  IF others = << >> THEN x[A]
  ELSE RAdd(RMul(model_func(model, Head(others), A, B, Tem, phase, order).v, x[Head(others)]),
            ClaimedNumerator(x, Tail(others), A, B))

OtherKeys(A, B) == SelectSeq(caller_keys, LAMBDA e : e # A /\ e # B)

\* [x_A*x_B/(d_A*d_B)] * H_AB(d_A, d_B) for the numerators nA and nB; a pair
\* with d_A = 0 or d_B = 0 adds nothing
ClaimedTermOf(x, A, B, nA, nB) ==
  IF RIsZero(nA) \/ RIsZero(nB) THEN Zero
  ELSE RMul(RDiv(RMul(x[A], x[B]),
                 RMul(RDiv(nA, RAdd(nA, nB)), RDiv(nB, RAdd(nA, nB)))),
            getEnthalpy_byMiedema_Model(Binary(A, B, phase, order).v,
                                        RDiv(nA, RAdd(nA, nB)), RDiv(nB, RAdd(nA, nB))).v)

ClaimedTerm(x, A, B) ==
  ClaimedTermOf(x, A, B, ClaimedNumerator(x, OtherKeys(A, B), A, B),
                ClaimedNumerator(x, OtherKeys(B, A), B, A))

\* the sum of the terms over the pairs of positions a < b from (a, b) on
RECURSIVE ClaimedSum(_, _, _)
ClaimedSum(x, a, b) ==
  IF a >= Len(caller_keys) THEN Zero
  ELSE IF b > Len(caller_keys) THEN ClaimedSum(x, a + 1, a + 2)
  ELSE RAdd(ClaimedTerm(x, caller_keys[a], caller_keys[b]), ClaimedSum(x, a, b + 1))

\* C17 as stated: for a normalized composition the mixing enthalpy equals the
\* sum over all pairs (A,B) of [x_A*x_B/(d_A*d_B)]*H_AB(d_A,d_B), where
\* d_A = (x_A + sum_C c(C,A,B)*x_C)/S, d_B = (x_B + sum_C c(C,B,A)*x_C)/S and
\* S is the sum of the two numerators.
C17_EnthalpyIsExtrapolationSum ==
  \A n \in NormalizedEnthalpyCalls :
    /\ calllog[n].err = "none"
    /\ calllog[n].v = ClaimedSum(calllog[n].arg, 1, 2)

\* position of the key e in the key list of the call
KeyPosition(e) == CHOOSE n \in 1..Len(cargs[1]) : cargs[1][n] = e

\* C18 as stated: for a composition with N keys, _get_subBinary_composition
\* returns exactly N*(N-1)/2 Binary objects, one for each unordered pair of
\* distinct keys and none twice, ordered by the insertion order of the keys
\* (pair (A,B) with A before B, pairs sorted by A then B), including pairs
\* that involve a key whose fraction is 0.
C18_OneBinaryPerPairInOrder ==
  cmodel = "_get_subBinary_composition"
  => /\ IsOk(cres)
     /\ Len(cres.v) = (Len(cargs[1]) * (Len(cargs[1]) - 1)) \div 2
     /\ \A p \in DOMAIN cres.v : KeyPosition(cres.v[p].A) < KeyPosition(cres.v[p].B)
     /\ \A a \in DOMAIN cargs[1], b \in DOMAIN cargs[1] :
          a < b => Cardinality({ p \in DOMAIN cres.v :
                                  /\ cres.v[p].A = cargs[1][a]
                                  /\ cres.v[p].B = cargs[1][b] }) = 1
     /\ \A p \in DOMAIN cres.v, q \in DOMAIN cres.v :
          p < q => \/ KeyPosition(cres.v[p].A) < KeyPosition(cres.v[q].A)
                   \/ /\ cres.v[p].A = cres.v[q].A
                      /\ KeyPosition(cres.v[p].B) < KeyPosition(cres.v[q].B)

\* C19: when the three equimolar enthalpies are not all strictly of one
\* sign, _asym_component_choice(k,i,j) returns i when H_ij*H_ik > 0,
\* otherwise j when H_ij*H_jk > 0, otherwise k; for all values, zeros and
\* equal enthalpies included.
C19_MixedSignSelection ==
  (RuleCall /\ ~AllOneSign)
  => cres.v = IF RPos(RMul(cargs[1], cargs[2])) THEN RuleTriple[2]
              ELSE IF RPos(RMul(cargs[1], cargs[3])) THEN RuleTriple[3]
              ELSE RuleTriple[1]
\* H_ij and H_jk equal and positive, H_ik zero: j is returned
C19_Witness ==
  /\ RuleCall
  /\ ~AllOneSign
  /\ RPos(cargs[1])
  /\ cargs[3] = cargs[1]
  /\ RIsZero(cargs[2])
  /\ cres.v = RuleTriple[3]

\* the step calculate_activity_coefficient takes at the solute's fraction
StepTaken == step_delta(NormalizedSoluteFraction)

\* C20 as stated: for every solute fraction x_i in [0,1],
\* calculate_activity_coefficient uses a step d with 0 < d <= 1e-6,
\* x_i - d >= 0 and x_i + d <= 1, so that the central-difference quotient is
\* always defined and the function returns a finite number, including at
\* x_i = 0 and x_i = 1.
C20_StepPositiveResultFinite ==
  ( /\ ln_numerical # Pending
    /\ phase \in PhaseStates
    /\ RPos(SumDict(caller_dict, caller_keys)) )
  => /\ RPos(StepTaken)
     /\ RLe(StepTaken, delta_cap)
     /\ RNonNeg(RSub(NormalizedSoluteFraction, StepTaken))
     /\ RLe(RAdd(NormalizedSoluteFraction, StepTaken), One)
     /\ IsOk(ln_numerical)

(***************************************************************************)
(* The two evaluation points of calculate_activity_coefficient (ActSpec)   *)
(***************************************************************************)
\* a finished call of the finite-difference path that got as far as the
\* perturbed compositions
PerturbationMade ==
  /\ ln_numerical # Pending
  /\ RPos(SumDict(caller_dict, caller_keys))
\* the normalized local composition, the step, and the two compositions
\* handed to the Gibbs-energy evaluation
LocalX == local_composition(caller_dict, caller_keys).v
StepUsed == step_delta(LocalX[solute])
CompPlus == create_perturbed_composition(LocalX, caller_keys, solute, StepUsed)
CompMinus == create_perturbed_composition(LocalX, caller_keys, solute, RNeg(StepUsed))

\* C21 as stated: the solute's mole fraction in the composition used for
\* G_plus is exactly x_i + d and in the composition used for G_minus exactly
\* x_i - d, so the two points are symmetric about x_i and 2d apart.
C21_PointsSymmetric ==
  PerturbationMade
  => /\ IsOk(CompPlus) /\ IsOk(CompMinus)
     /\ CompPlus.v[solute] = RAdd(LocalX[solute], StepUsed)
     /\ CompMinus.v[solute] = RSub(LocalX[solute], StepUsed)
     /\ RSub(CompPlus.v[solute], CompMinus.v[solute]) = RMul(<< 2, 1 >>, StepUsed)

\* the mapping p has no negative entry, sums to 1, and its non-solute
\* entries are in the ratios of those of x
WellFormedPerturbation(p, x) ==
  /\ \A e \in DOMAIN p : RNonNeg(p[e])
  /\ SumDict(p, caller_keys) = One
  /\ \A e \in DOMAIN p, f \in DOMAIN p :
       (e # solute /\ f # solute) => RMul(p[e], x[f]) = RMul(p[f], x[e])

\* C22: for both the +d and the -d perturbation and every normalized
\* non-negative starting composition, the composition handed to the
\* Gibbs-energy evaluation has all entries >= 0, sums to 1, and keeps the
\* ratios between the non-solute components of the starting composition.
C22_PerturbedStaysNormalized ==
  PerturbationMade
  => /\ IsOk(CompPlus) /\ IsOk(CompMinus)
     /\ WellFormedPerturbation(CompPlus.v, LocalX)
     /\ WellFormedPerturbation(CompMinus.v, LocalX)
\* a ternary composition with a positive step and two different positive
\* non-solute fractions, the others scaled down for the +d point
C22_Witness ==
  /\ PerturbationMade
  /\ Len(caller_keys) = 3
  /\ RPos(StepUsed)
  /\ RPos(LocalX[caller_keys[2]])
  /\ RLt(LocalX[caller_keys[2]], LocalX[caller_keys[3]])
  /\ RLt(CompPlus.v[caller_keys[3]], LocalX[caller_keys[3]])
  /\ WellFormedPerturbation(CompPlus.v, LocalX)

(***************************************************************************)
(* The branches of activityCoefficient_calc (FuncSpec)                      *)
(* cargs = << n, G, p, T >>                                                 *)
(***************************************************************************)
BranchCall == cmodel = "activityCoefficient_calc"
Positions(n) == [m \in 1..(n + 1) |-> m]
\* G + dG/dx_solute - the sum over the solute and the n other components of
\* x_m * dG/dx_m, by one loop over the positions
GenericGi(n, G, x, d) ==
  RSub(RAdd(G, d[1]), RSumSeq([m \in 1..(n + 1) |-> RMul(x[m], d[m])], Positions(n)))

C24_IntegralsFollowSubscripts ==
  cmodel = "UEM2_N integrals"
  => cres.v = << << cargs[1], cargs[3] >>, << cargs[3], cargs[2] >>,
                 << cargs[1], cargs[2] >>, << cargs[2], cargs[3] >> >>

\* the equimolar enthalpy of the pair {x, y} of RuleTriple in the call
PairEnthalpy(x, y) ==
  IF { x, y } = { RuleTriple[2], RuleTriple[3] } THEN cargs[1]
  ELSE IF { x, y } = { RuleTriple[2], RuleTriple[1] } THEN cargs[2]
  ELSE cargs[3]
\* what _asym_component_choice returns when the triple is passed as (k, i, j)
SelectedInOrder(k, i, j) ==
  asym_rule(k, i, j, PairEnthalpy(i, j), PairEnthalpy(i, k), PairEnthalpy(j, k))
ArgumentOrders ==
  { t \in Triples : { t[1], t[2], t[3] } = { RuleTriple[1], RuleTriple[2], RuleTriple[3] } }

\* C25 as stated: the asymmetric component selected for a triple of distinct
\* elements is the same element for all six argument orders of (k,i,j), for
\* all enthalpy values (including equal magnitudes); hence for a given k and
\* pair {i,j} at most one of Toop_Kohler(k,i,j) and Toop_Kohler(k,j,i) is 1.
C25_SelectionIgnoresArgumentOrder ==
  RuleCall
  => /\ \A t \in ArgumentOrders : SelectedInOrder(t[1], t[2], t[3]) = cres.v
     /\ \A t \in ArgumentOrders :
          ~ /\ Toop_select(SelectedInOrder(t[1], t[2], t[3]), t[1], t[2], t[3]) = Ok(One)
            /\ Toop_select(SelectedInOrder(t[1], t[3], t[2]), t[1], t[3], t[2]) = Ok(One)

\* a call of GSM on elements with tags the Binary constructor accepts
GSMCall ==
  /\ cmodel = "GSM"
  /\ Len(cargs) = 6
  /\ ValidTags(cargs[5], cargs[6])
\* GSM(k, j, i, ...) for the call GSM(k, i, j, ...)
GSMSwapped == GSM(cargs[1], cargs[3], cargs[2], cargs[4], cargs[5], cargs[6])

\* C26: for all distinct k, i, j and all T, phase and order,
\* GSM(k,i,j) + GSM(k,j,i) = 1: the two calls use the same two deviation
\* integrals with the numerator exchanged, and in the fallback case both
\* return 0.5.
C26_GSMPairSumsToOne ==
  GSMCall
  => /\ IsOk(cres)
     /\ IsOk(GSMSwapped)
     /\ RAdd(cres.v, GSMSwapped.v) = One
     /\ \A a \in Quantities, b \in Quantities :
          RAdd(GSM_quot(a, b).v, GSM_quot(b, a).v) = One
\* a call whose two deviation integrals differ, so that the coefficient and
\* the coefficient of the exchanged call are the distinct quotients 1 and 0
C26_Witness ==
  /\ GSMCall
  /\ IsOk(cres)
  /\ cres.v = One
  /\ GSMSwapped.v = Zero
  /\ beta_kj(cargs[1], cargs[3], cargs[2], cargs[4], cargs[5], cargs[6]).v
       # beta_kj(cargs[1], cargs[2], cargs[3], cargs[4], cargs[5], cargs[6]).v

\* d_fun10 of the object built for the same pair in the other order
DiluteExchanged ==
  d_fun10(BinaryAtT(cargs[2], cargs[1], cargs[3], cargs[4], "SS").v)

\* C27 as stated: for every pair of elements and both phases,
\* Binary(A,B).d_fun20() equals Binary(B,A).d_fun10(): the transition-enthalpy
\* term of d_fun20 is switched on under the rule of d_fun10 with the roles of
\* A and B exchanged.
C27_DiluteBEqualsExchangedA ==
  cmodel = "d_fun20" => cres = DiluteExchanged

\* a call of _get_subBinary_composition on a composition with a positive sum
SubBinaryCall ==
  /\ cmodel = "_get_subBinary_composition"
  /\ RPos(SumDict(cargs[2], cargs[1]))
\* the composition of the call after the normalization loop
NormalizedComposition == NormalizeInPlace(cargs[2], cargs[1])
\* the keys of the call other than A and B, in insertion order
ThirdKeys(A, B) == SelectSeq(cargs[1], LAMBDA e : e # A /\ e # B)
\* the coefficients of the call's model for the pair (A, B) satisfy the
\* premise: c >= 0 and c(C,A,B) + c(C,B,A) <= 1 for every third key C
AdmissibleCoefficients(A, B) ==
  \A n \in DOMAIN ThirdKeys(A, B) :
    \E cA \in { model_func(cargs[3], ThirdKeys(A, B)[n], A, B, cargs[4], "L", "SS") },
       cB \in { model_func(cargs[3], ThirdKeys(A, B)[n], B, A, cargs[4], "L", "SS") } :
      /\ IsOk(cA)
      /\ IsOk(cB)
      /\ RNonNeg(cA.v)
      /\ RNonNeg(cB.v)
      /\ RLe(RAdd(cA.v, cB.v), One)
\* the two contribution sums of the pair (A, B)
PairContributions(A, B) ==
  Contributions(cargs[3], NormalizedComposition, ThirdKeys(A, B), A, B, cargs[4], "L", "SS",
                [err |-> "none", a |-> Zero, b |-> Zero, calls |-> 0])
\* delta_A and delta_B of lines 258-259
Delta_A(A, B) == RAdd(NormalizedComposition[A], PairContributions(A, B).a)
Delta_B(A, B) == RAdd(NormalizedComposition[B], PairContributions(A, B).b)
\* the weight of line 304 for an entry of the returned BinaryList
PairWeight(bij) ==
  RDiv(RMul(NormalizedComposition[bij.A], NormalizedComposition[bij.B]),
       RMul(bij.xA, bij.xB))
\* the pairs of keys of the call, first key before second
KeyPairs ==
  { pr \in (DOMAIN cargs[1]) \X (DOMAIN cargs[1]) : pr[1] < pr[2] }

\* C28: for every normalized composition with non-negative fractions and
\* every model whose coefficients satisfy c >= 0 and c(C,A,B) + c(C,B,A) <= 1,
\* the un-normalized effective fractions of each pair satisfy x_A <= D_A,
\* x_B <= D_B and D_A + D_B <= 1, and the pair weight x_A*x_B/(d_A*d_B)
\* applied to the binary value lies in [0,1].
C28_EffectiveFractionsBounded ==
  SubBinaryCall
  => /\ \A pr \in KeyPairs :
          AdmissibleCoefficients(cargs[1][pr[1]], cargs[1][pr[2]])
          => /\ PairContributions(cargs[1][pr[1]], cargs[1][pr[2]]).err = "none"
             /\ RLe(NormalizedComposition[cargs[1][pr[1]]],
                    Delta_A(cargs[1][pr[1]], cargs[1][pr[2]]))
             /\ RLe(NormalizedComposition[cargs[1][pr[2]]],
                    Delta_B(cargs[1][pr[1]], cargs[1][pr[2]]))
             /\ RLe(RAdd(Delta_A(cargs[1][pr[1]], cargs[1][pr[2]]),
                         Delta_B(cargs[1][pr[1]], cargs[1][pr[2]])), One)
     /\ IsOk(cres)
        => \A p \in DOMAIN cres.v :
             ( /\ AdmissibleCoefficients(cres.v[p].A, cres.v[p].B)
               /\ RPos(cres.v[p].xA)
               /\ RPos(cres.v[p].xB) )
             => /\ cres.v[p].xA = RDiv(Delta_A(cres.v[p].A, cres.v[p].B),
                                       RAdd(Delta_A(cres.v[p].A, cres.v[p].B),
                                            Delta_B(cres.v[p].A, cres.v[p].B)))
                /\ RNonNeg(PairWeight(cres.v[p]))
                /\ RLe(PairWeight(cres.v[p]), One)
\* a ternary call whose first pair receives a contribution from the third
\* component and whose weight is strictly between 0 and 1
C28_Witness ==
  /\ SubBinaryCall
  /\ Len(cargs[1]) = 3
  /\ IsOk(cres)
  /\ AdmissibleCoefficients(cres.v[1].A, cres.v[1].B)
  /\ RLt(NormalizedComposition[cres.v[1].A], Delta_A(cres.v[1].A, cres.v[1].B))
  /\ RPos(cres.v[1].xA)
  /\ RPos(cres.v[1].xB)
  /\ RPos(PairWeight(cres.v[1]))
  /\ RLt(PairWeight(cres.v[1]), One)

\* calculate_activity_coefficient on the input of the run with the key s as
\* the solvent argument
NumericalWithSolvent(s) ==
  calculate_activity_coefficient(gcoef, caller_dict, caller_keys, solute, s,
                                 Tem, phase, order, model)

\* C29: the value returned by calculate_activity_coefficient does not depend
\* on which element is designated as solvent: two calls that differ only in
\* the solvent argument (both solvents being keys of the composition) return
\* equal results.
C29_SolventDoesNotMatter ==
  ln_numerical # Pending
  => \A s \in KeySet(caller_keys) : NumericalWithSolvent(s) = ln_numerical
\* a ternary call that returned a non-zero number, with three keys to take
\* as the solvent
C29_Witness ==
  /\ ln_numerical # Pending
  /\ IsOk(ln_numerical)
  /\ Len(caller_keys) = 3
  /\ ~RIsZero(ln_numerical.v)
  /\ NumericalWithSolvent(caller_keys[2]) = ln_numerical
  /\ RPos(caller_dict[caller_keys[2]])

\* C30: on every execution path of the engine (get_Gibbs_byMiedema, GSM via
\* _beta_kj, UEM1 via _df_UEM1, UEM2_N) set_T is called on a Binary object
\* before get_excess_Gibbs, d_fun10 or d_fun20 is called on that object, so
\* the temperature attribute is never read before it has been set (a read of
\* the missing attribute is an AttributeError); get_mixingEnthalpy_byMiedema
\* and _asym_component_choice never call set_T and never reach a read: the
\* objects _get_subBinary_composition hands over carry no temperature.
C30_TemperatureSetBeforeRead ==
  /\ cmodel # "none" => cres.err # "AttributeError"
  /\ (cmodel = "_get_subBinary_composition" /\ IsOk(cres))
     => \A p \in DOMAIN cres.v : ~cres.v[p].hasTem
\* get_Gibbs_byMiedema on three elements returned after reading the
\* temperature of its three Binary objects, and the value depends on it
C30_Witness ==
  /\ cmodel = "get_Gibbs_byMiedema"
  /\ Len(cargs[1]) = 3
  /\ IsOk(cres)
  /\ ~RIsZero(cres.v)
  /\ cres.v # get_mixingEnthalpy_byMiedema(Equimolar(cargs[1]), cargs[1], cargs[3],
                                          cargs[4], cargs[5], cargs[2]).v

=============================================================================
